---------------------------- MODULE Spec2Model ----------------------------
(***************************************************************************)
(* Verification model of BugSwarm/common.                                  *)
(*                                                                         *)
(*   - the bounded-parallel batch runner, and its older version without    *)
(*     hooks and counters                                                  *)
(*       bugswarmcommon/artifact_processing/runners.py                     *)
(*       bugswarmcommon/artifact_processing.py                             *)
(*   - the etag-conditioned mutator (_get/_patch/_put/_delete/_upsert)     *)
(*       bugswarm/common/rest_api/database_api.py                          *)
(*   - the pagination traverser (_iter_pages), in its three versions       *)
(*       bugswarm/common/rest_api/database_api.py                          *)
(*       bugswarm/common/rest_api.py                                       *)
(*       bugswarmcommon/rest_api.py                                        *)
(*                                                                         *)
(*   - the log downloader (download_log, _get_log_from_url)                *)
(*       bugswarm/common/log_downloader.py                                 *)
(*   - the Travis wrapper (_get, _get_iterate)                             *)
(*       bugswarmcommon/travis_wrapper.py                                  *)
(*   - bulk insertion, single REST calls and the replacement of a repo's   *)
(*     mined build pairs                                                   *)
(*       bugswarm/common/rest_api/database_api.py                          *)
(*                                                                         *)
(* Each component has a specification of its own (SpecRunner, SpecMutator, *)
(* SpecPages, SpecLog, SpecTravis, SpecBulk, SpecCall, SpecIter,           *)
(* SpecReplace); the variables of the other components stay at their       *)
(* initial values.                                                         *)
(***************************************************************************)
EXTENDS Integers, Sequences, FiniteSets, TLC

VARIABLES
    \* ---- ParallelArtifactRunner (runners.py) ----
    image_tags,     \* self._image_tags: the work list, a sequence of tags
    max_workers,    \* self._max_workers
    rpc,            \* position of the thread that constructs the runner and calls run()
    submitted,      \* number of items already handed to executor.submit (list order)
    fut,            \* fut[i]: state of the future of the i-th submitted item
    invoked,        \* tags process_artifact was called with, in call order
    counted,        \* positions whose future the as_completed loop has consumed
    attempted,      \* run()'s local counter
    succeeded,      \* run()'s local counter
    errored,        \* run()'s local counter
    logged,         \* number of log.error(e) calls made by run()
    pre_calls,      \* number of calls of pre_run
    post_calls,     \* number of calls of post_run
    peak,           \* largest number of workers holding an item at the same time
    \* ---- DatabaseAPI mutator (database_api.py) and the remote store ----
    srv,            \* the entity behind the endpoint on the remote store
    client,         \* client[c]: the call client c is executing, and its request history
    lost,           \* TRUE once the store accepted a patch or delete based on an outdated read
    \* ---- _iter_pages (three versions) and the collection it traverses ----
    variant,        \* which _iter_pages runs: "database_api", "rest_api" or "legacy"
    pages,          \* pages[k]: what the store answers a GET of link k with
    ppc,            \* position of the traversal: "idle", "loop", "returned", "raised"
    next_link,      \* the local next_link (a page number)
    results,        \* the local accumulator `results`
    visited,        \* the links GET was issued on, in order
    perr,           \* the exception that left _iter_pages ("none" when none did)
    \* ---- download_log / _get_log_from_url (log_downloader.py) ----
    dl,             \* the download_log call: arguments, position, requests made, file
    \* ---- TravisWrapper._get (travis_wrapper.py) ----
    tw,             \* the _get call: position, responses received, sleeps
    \* ---- DatabaseAPI._chunks / _bulk_insert / bulk_insert_mined_build_pairs ----
    bulk,           \* the entities, the chunks produced, the POSTs sent
    \* ---- one call of a REST method of DatabaseAPI ----
    call,           \* the call: method, arguments, position, requests, log
    \* ---- TravisWrapper._get_iterate (travis_wrapper.py) ----
    gi,             \* the generator: position, pages fetched, items yielded
    \* ---- replace_mined_build_pairs_for_repo (database_api.py, rest_api.py) ----
    rep             \* the call: the repo's pairs on the store, requests, result

runnerVars == <<image_tags, max_workers, rpc, submitted, fut, invoked, counted,
                attempted, succeeded, errored, logged, pre_calls, post_calls, peak>>

mutatorVars == <<srv, client, lost>>

pagesVars == <<variant, pages, ppc, next_link, results, visited, perr>>

vars == <<runnerVars, mutatorVars, pagesVars, dl, tw, bulk, call, gi, rep>>

\* What the runner's steps leave alone.
nonRunnerVars == <<mutatorVars, pagesVars, dl, tw, bulk, call, gi, rep>>

\* What the mutator's steps leave alone.
nonMutatorVars == <<runnerVars, pagesVars, dl, tw, bulk, call, gi, rep>>

\* What the traverser's steps leave alone.
nonPagesVars == <<runnerVars, mutatorVars, dl, tw, bulk, call, gi, rep>>

\* What the log downloader's steps leave alone.
nonLogVars == <<runnerVars, mutatorVars, pagesVars, tw, bulk, call, gi, rep>>

\* What TravisWrapper's steps leave alone.
nonTravisVars == <<runnerVars, mutatorVars, pagesVars, dl, bulk, call, gi, rep>>

\* What the bulk inserter's steps leave alone.
nonBulkVars == <<runnerVars, mutatorVars, pagesVars, dl, tw, call, gi, rep>>

\* What the steps of _get_iterate leave alone.
nonIterVars == <<runnerVars, mutatorVars, pagesVars, dl, tw, bulk, call, rep>>

\* What the steps of replace_mined_build_pairs_for_repo leave alone.
nonReplaceVars == <<runnerVars, mutatorVars, pagesVars, dl, tw, bulk, call, gi>>

\* What a single REST call's steps leave alone.
nonCallVars == <<runnerVars, mutatorVars, pagesVars, dl, tw, bulk, gi, rep>>

-----------------------------------------------------------------------------
(* Bounds of the model *)

MaxItems == 3
MaxWorkers == 2
MaxCalls == 2
MaxPages == 3
MaxPerPage == 2
MaxGets == 5
MaxRetries == 3
MaxPolls == 4
MaxEntities == 4
MaxChunk == 3
MaxRuns == 2
MaxFetch == 3
MaxPairs == 3

-----------------------------------------------------------------------------
(* Helpers *)

Tags == {"a", "b"}

RECURSIVE SeqsUpTo(_, _)
SeqsUpTo(S, n) ==
    IF n = 0 THEN {<<>>}
    ELSE LET shorter == SeqsUpTo(S, n - 1)
         IN  shorter \cup {Append(s, x) : s \in {t \in shorter : Len(t) = n - 1}, x \in S}

RECURSIVE Occ(_, _)
Occ(s, x) ==
    IF s = <<>> THEN 0
    ELSE (IF Head(s) = x THEN 1 ELSE 0) + Occ(Tail(s), x)

Min(a, b) == IF a <= b THEN a ELSE b
Max(a, b) == IF a >= b THEN a ELSE b

-----------------------------------------------------------------------------
(* ParallelArtifactRunner *)

Positions == 1..Len(image_tags)

\* Futures whose callable has returned or raised. "raised" is an exception of
\* class Exception; "raised_base" is one outside it (SystemExit,
\* KeyboardInterrupt, GeneratorExit): the executor's worker stores either in
\* the future and future.result() raises it again.
Finished == {"truthy", "falsy", "raised", "raised_base"}

\* Items a worker thread currently holds (taken from the queue, not finished).
Held == {i \in Positions : fut[i] \in {"dequeued", "running"}}

\* A pool with one thread per work item, whatever max_workers is.
num_workers_ListLength == Len(image_tags)

\* min(self._max_workers, len(self._image_tags))
num_workers == Min(max_workers, Len(image_tags))

\* The work lists, up to renaming of the tags (the runner only passes a tag on
\* to the handler): the empty list and the lists whose first tag is "a".
WorkLists == {s \in SeqsUpTo(Tags, MaxItems) : s = <<>> \/ s[1] = "a"}

RunnerInit ==
    /\ image_tags \in WorkLists
    /\ max_workers \in -1..MaxWorkers
    /\ rpc = "New"
    /\ submitted = 0
    /\ fut = [i \in 1..Len(image_tags) |-> "none"]
    /\ invoked = <<>>
    /\ counted = {}
    /\ attempted = 0
    /\ succeeded = 0
    /\ errored = 0
    /\ logged = 0
    /\ pre_calls = 0
    /\ post_calls = 0
    /\ peak = 0

\* The runner's variables while another component is exercised.
RunnerIdle ==
    /\ image_tags = <<>>
    /\ max_workers = 1
    /\ rpc = "New"
    /\ submitted = 0
    /\ fut = <<>>
    /\ invoked = <<>>
    /\ counted = {}
    /\ attempted = 0
    /\ succeeded = 0
    /\ errored = 0
    /\ logged = 0
    /\ pre_calls = 0
    /\ post_calls = 0
    /\ peak = 0

\* A constructor that accepts max_workers = 0.
InitArgError_ZeroAllowed(tags, workers) == tags = <<>> \/ workers < 0

\* if not image_tags: raise ValueError
\* if max_workers <= 0: raise ValueError
InitArgError(tags, workers) == tags = <<>> \/ workers <= 0

\* __init__: both argument checks, then the two assignments.
Construct ==
    /\ rpc = "New"
    /\ rpc' = IF InitArgError(image_tags, max_workers) THEN "ValueError" ELSE "Created"
    /\ UNCHANGED nonRunnerVars
    /\ UNCHANGED <<image_tags, max_workers, submitted, fut, invoked, counted, attempted,
                   succeeded, errored, logged, pre_calls, post_calls, peak>>

\* run(): self.pre_run() is entered.
PreRunCall ==
    /\ rpc = "Created"
    /\ rpc' = "PreRun"
    /\ pre_calls' = pre_calls + 1
    /\ UNCHANGED nonRunnerVars
    /\ UNCHANGED <<image_tags, max_workers, submitted, fut, invoked, counted, attempted,
                   succeeded, errored, logged, post_calls, peak>>

\* pre_run returns; the executor is created and the with block is entered.
PreRunReturn ==
    /\ rpc = "PreRun"
    /\ rpc' = "Submit"
    /\ UNCHANGED nonRunnerVars
    /\ UNCHANGED <<image_tags, max_workers, submitted, fut, invoked, counted, attempted,
                   succeeded, errored, logged, pre_calls, post_calls, peak>>

\* One iteration of the dict comprehension: executor.submit(self._thread_main, image_tag).
\* After the last one the with block is left and executor.__exit__ waits.
Submit ==
    /\ rpc = "Submit"
    /\ submitted < Len(image_tags)
    /\ submitted' = submitted + 1
    /\ fut' = [fut EXCEPT ![submitted + 1] = "pending"]
    /\ rpc' = IF submitted + 1 = Len(image_tags) THEN "Shutdown" ELSE "Submit"
    /\ UNCHANGED nonRunnerVars
    /\ UNCHANGED <<image_tags, max_workers, invoked, counted, attempted,
                   succeeded, errored, logged, pre_calls, post_calls, peak>>

\* A pool whose threads exit after their first work item.
Dequeue_OneItemPerThread(i) ==
    /\ fut[i] = "pending"
    /\ \A j \in Positions : fut[j] = "pending" => i <= j
    /\ Cardinality({j \in Positions : fut[j] \notin {"none", "pending"}}) < num_workers
    /\ fut' = [fut EXCEPT ![i] = "dequeued"]
    /\ peak' = Max(peak, Cardinality(Held) + 1)
    /\ UNCHANGED nonRunnerVars
    /\ UNCHANGED <<image_tags, max_workers, rpc, submitted, invoked, counted, attempted,
                   succeeded, errored, logged, pre_calls, post_calls>>

\* A worker thread of the pool takes the oldest queued work item. The pool has
\* at most num_workers threads and each holds one item at a time.
Dequeue(i) ==
    /\ fut[i] = "pending"
    /\ \A j \in Positions : fut[j] = "pending" => i <= j
    /\ Cardinality(Held) < num_workers
    /\ fut' = [fut EXCEPT ![i] = "dequeued"]
    /\ peak' = Max(peak, Cardinality(Held) + 1)
    /\ UNCHANGED nonRunnerVars
    /\ UNCHANGED <<image_tags, max_workers, rpc, submitted, invoked, counted, attempted,
                   succeeded, errored, logged, pre_calls, post_calls>>

\* The worker calls _thread_main(image_tag), which calls process_artifact(image_tag).
Invoke(i) ==
    /\ fut[i] = "dequeued"
    /\ fut' = [fut EXCEPT ![i] = "running"]
    /\ invoked' = Append(invoked, image_tags[i])
    /\ UNCHANGED nonRunnerVars
    /\ UNCHANGED <<image_tags, max_workers, rpc, submitted, counted, attempted,
                   succeeded, errored, logged, pre_calls, post_calls, peak>>

\* process_artifact returns a truthy value, a falsy value, or raises; the
\* future keeps the result or the exception.
HandlerEnd(i, outcome) ==
    /\ fut[i] = "running"
    /\ fut' = [fut EXCEPT ![i] = outcome]
    /\ UNCHANGED nonRunnerVars
    /\ UNCHANGED <<image_tags, max_workers, rpc, submitted, invoked, counted, attempted,
                   succeeded, errored, logged, pre_calls, post_calls, peak>>

\* executor.__exit__ is shutdown(wait=True): it returns once every worker thread
\* has exited, that is once every submitted item has finished.
ShutdownReturn ==
    /\ rpc = "Shutdown"
    /\ \A i \in Positions : fut[i] \in Finished
    /\ rpc' = "Count"
    /\ UNCHANGED nonRunnerVars
    /\ UNCHANGED <<image_tags, max_workers, submitted, fut, invoked, counted, attempted,
                   succeeded, errored, logged, pre_calls, post_calls, peak>>

\* CountOne with `attempted += 1` moved inside the try block, after future.result().
CountOne_AttemptedInTry(i) ==
    /\ rpc = "Count"
    /\ i \notin counted
    /\ fut[i] \in Finished
    /\ counted' = counted \cup {i}
    /\ attempted' = IF fut[i] = "raised" THEN attempted ELSE attempted + 1
    /\ succeeded' = IF fut[i] = "truthy" THEN succeeded + 1 ELSE succeeded
    /\ errored' = IF fut[i] \in {"falsy", "raised"} THEN errored + 1 ELSE errored
    /\ logged' = IF fut[i] = "raised" THEN logged + 1 ELSE logged
    /\ rpc' = IF fut[i] = "raised_base" THEN "Propagated" ELSE rpc
    /\ UNCHANGED nonRunnerVars
    /\ UNCHANGED <<image_tags, max_workers, submitted, fut, invoked,
                   pre_calls, post_calls, peak>>

\* CountOne without the try/except around future.result(): the handler's
\* exception leaves run().
CountOne_NoExcept(i) ==
    /\ rpc = "Count"
    /\ i \notin counted
    /\ fut[i] \in Finished
    /\ counted' = counted \cup {i}
    /\ attempted' = attempted + 1
    /\ succeeded' = IF fut[i] = "truthy" THEN succeeded + 1 ELSE succeeded
    /\ errored' = IF fut[i] = "falsy" THEN errored + 1 ELSE errored
    /\ rpc' = IF fut[i] \in {"raised", "raised_base"} THEN "Propagated" ELSE rpc
    /\ UNCHANGED nonRunnerVars
    /\ UNCHANGED <<image_tags, max_workers, submitted, fut, invoked, logged,
                   pre_calls, post_calls, peak>>

\* CountOne whose except branch logs the exception without `errored += 1`.
CountOne_RaisedUncounted(i) ==
    /\ rpc = "Count"
    /\ i \notin counted
    /\ fut[i] \in Finished
    /\ counted' = counted \cup {i}
    /\ attempted' = attempted + 1
    /\ succeeded' = IF fut[i] = "truthy" THEN succeeded + 1 ELSE succeeded
    /\ errored' = IF fut[i] = "falsy" THEN errored + 1 ELSE errored
    /\ logged' = IF fut[i] = "raised" THEN logged + 1 ELSE logged
    /\ rpc' = IF fut[i] = "raised_base" THEN "Propagated" ELSE rpc
    /\ UNCHANGED nonRunnerVars
    /\ UNCHANGED <<image_tags, max_workers, submitted, fut, invoked,
                   pre_calls, post_calls, peak>>

\* A loop whose counts depend on the order in which the futures complete: a
\* truthy result counts as a success only when its future is yielded at its
\* own position of the list.
CountOne_OrderDependent(i) ==
    /\ rpc = "Count"
    /\ i \notin counted
    /\ fut[i] \in Finished
    /\ counted' = counted \cup {i}
    /\ attempted' = attempted + 1
    /\ succeeded' = IF fut[i] = "truthy" /\ i = Cardinality(counted) + 1
                    THEN succeeded + 1 ELSE succeeded
    /\ errored' = IF fut[i] \in {"falsy", "raised"} THEN errored + 1 ELSE errored
    /\ logged' = IF fut[i] = "raised" THEN logged + 1 ELSE logged
    /\ rpc' = IF fut[i] = "raised_base" THEN "Propagated" ELSE rpc
    /\ UNCHANGED nonRunnerVars
    /\ UNCHANGED <<image_tags, max_workers, submitted, fut, invoked,
                   pre_calls, post_calls, peak>>

\* One iteration of `for future in as_completed(future_to_image_tag)`:
\* as_completed yields each finished future once, in no particular order.
\* `attempted += 1` precedes the try; `except Exception` counts and logs an
\* exception of class Exception; any other exception leaves the loop and
\* run() with it, before post_run().
CountOne(i) ==
    /\ rpc = "Count"
    /\ i \notin counted
    /\ fut[i] \in Finished
    /\ counted' = counted \cup {i}
    /\ attempted' = attempted + 1
    /\ succeeded' = IF fut[i] = "truthy" THEN succeeded + 1 ELSE succeeded
    /\ errored' = IF fut[i] \in {"falsy", "raised"} THEN errored + 1 ELSE errored
    /\ logged' = IF fut[i] = "raised" THEN logged + 1 ELSE logged
    /\ rpc' = IF fut[i] = "raised_base" THEN "Propagated" ELSE rpc
    /\ UNCHANGED nonRunnerVars
    /\ UNCHANGED <<image_tags, max_workers, submitted, fut, invoked,
                   pre_calls, post_calls, peak>>

\* PostRunCall placed right after the submissions, with neither the executor's
\* shutdown(wait=True) nor the as_completed loop before it.
PostRunCall_NoWait ==
    /\ rpc = "Shutdown"
    /\ rpc' = "PostRun"
    /\ post_calls' = post_calls + 1
    /\ UNCHANGED nonRunnerVars
    /\ UNCHANGED <<image_tags, max_workers, submitted, fut, invoked, counted, attempted,
                   succeeded, errored, logged, pre_calls, peak>>

\* The loop is exhausted; self.post_run() is entered.
PostRunCall ==
    /\ rpc = "Count"
    /\ counted = Positions
    /\ rpc' = "PostRun"
    /\ post_calls' = post_calls + 1
    /\ UNCHANGED nonRunnerVars
    /\ UNCHANGED <<image_tags, max_workers, submitted, fut, invoked, counted, attempted,
                   succeeded, errored, logged, pre_calls, peak>>

\* post_run returns and run() returns.
PostRunReturn ==
    /\ rpc = "PostRun"
    /\ rpc' = "Done"
    /\ UNCHANGED nonRunnerVars
    /\ UNCHANGED <<image_tags, max_workers, submitted, fut, invoked, counted, attempted,
                   succeeded, errored, logged, pre_calls, post_calls, peak>>

\* What run() hands back: it has no return statement, so the caller gets None
\* (the empty tuple here); attempted, succeeded and errored are locals of run().
RunReturn == <<>>

\* A run() that calls post_run in a finally clause, also when pre_run raised.
PreRunRaise_Finally ==
    /\ rpc = "PreRun"
    /\ rpc' = "PreRunRaised"
    /\ post_calls' = post_calls + 1
    /\ UNCHANGED nonRunnerVars
    /\ UNCHANGED <<image_tags, max_workers, submitted, fut, invoked, counted, attempted,
                   succeeded, errored, logged, pre_calls, peak>>

\* self.pre_run() of a subclass raises: run() has no try around it, the
\* exception leaves run() before the `with ThreadPoolExecutor(...)` line.
PreRunRaise ==
    /\ rpc = "PreRun"
    /\ rpc' = "PreRunRaised"
    /\ UNCHANGED nonRunnerVars
    /\ UNCHANGED <<image_tags, max_workers, submitted, fut, invoked, counted, attempted,
                   succeeded, errored, logged, pre_calls, post_calls, peak>>

\* self.post_run() of a subclass raises: it is the last statement of run(),
\* outside any try, so the exception leaves run().
PostRunRaise ==
    /\ rpc = "PostRun"
    /\ rpc' = "PostRunRaised"
    /\ UNCHANGED nonRunnerVars
    /\ UNCHANGED <<image_tags, max_workers, submitted, fut, invoked, counted, attempted,
                   succeeded, errored, logged, pre_calls, post_calls, peak>>

\* The attributes __init__ and run() set on the runner.
RunnerAttrs == {"_image_tags", "_max_workers"}

RunnerNext ==
    \/ Construct
    \/ PreRunCall
    \/ PreRunReturn
    \/ Submit
    \/ \E i \in Positions : Dequeue(i)
    \/ \E i \in Positions : Invoke(i)
    \/ \E i \in Positions, outcome \in Finished : HandlerEnd(i, outcome)
    \/ ShutdownReturn
    \/ \E i \in Positions : CountOne(i)
    \/ PostRunCall
    \/ PostRunReturn

\* A runner whose subclass hooks may raise.
RunnerHooksNext ==
    \/ RunnerNext
    \/ PreRunRaise
    \/ PostRunRaise

\* The older runner (artifact_processing.py). Its __init__ is the same as
\* Construct; its run() has no hooks and no counters: the executor is created
\* and the with block entered at once.
OlderRunCall ==
    /\ rpc = "Created"
    /\ rpc' = "OlderSubmit"
    /\ UNCHANGED nonRunnerVars
    /\ UNCHANGED <<image_tags, max_workers, submitted, fut, invoked, counted, attempted,
                   succeeded, errored, logged, pre_calls, post_calls, peak>>

\* One iteration of the dict comprehension of the older run():
\* executor.submit(self._thread_main, image_tag).
OlderSubmit ==
    /\ rpc = "OlderSubmit"
    /\ submitted < Len(image_tags)
    /\ submitted' = submitted + 1
    /\ fut' = [fut EXCEPT ![submitted + 1] = "pending"]
    /\ rpc' = IF submitted + 1 = Len(image_tags) THEN "OlderShutdown" ELSE "OlderSubmit"
    /\ UNCHANGED nonRunnerVars
    /\ UNCHANGED <<image_tags, max_workers, invoked, counted, attempted,
                   succeeded, errored, logged, pre_calls, post_calls, peak>>

\* executor.__exit__ of the older run(): shutdown(wait=True).
OlderShutdownReturn ==
    /\ rpc = "OlderShutdown"
    /\ \A i \in Positions : fut[i] \in Finished
    /\ rpc' = "OlderWait"
    /\ UNCHANGED nonRunnerVars
    /\ UNCHANGED <<image_tags, max_workers, submitted, fut, invoked, counted, attempted,
                   succeeded, errored, logged, pre_calls, post_calls, peak>>

\* wait(future_to_image_tag) returns once every future is done; it never
\* calls future.result(), so what a handler raised stays in its future, and
\* run() returns.
OlderWaitReturn ==
    /\ rpc = "OlderWait"
    /\ \A i \in Positions : fut[i] \in Finished
    /\ rpc' = "OlderDone"
    /\ UNCHANGED nonRunnerVars
    /\ UNCHANGED <<image_tags, max_workers, submitted, fut, invoked, counted, attempted,
                   succeeded, errored, logged, pre_calls, post_calls, peak>>

\* Both versions of the runner, with hooks that may raise.
RunnerVersionsNext ==
    \/ RunnerHooksNext
    \/ OlderRunCall
    \/ OlderSubmit
    \/ OlderShutdownReturn
    \/ OlderWaitReturn

\* run() is called again on a runner whose run() has returned. run() keeps no
\* record of having run: it starts over with self.pre_run(), a new executor,
\* new futures and new local counters. invoked, logged, pre_calls and
\* post_calls go on recording what the runner has done since construction.
RunAgain ==
    /\ rpc = "Done"
    /\ pre_calls < MaxRuns
    /\ rpc' = "PreRun"
    /\ pre_calls' = pre_calls + 1
    /\ submitted' = 0
    /\ fut' = [i \in Positions |-> "none"]
    /\ counted' = {}
    /\ attempted' = 0
    /\ succeeded' = 0
    /\ errored' = 0
    /\ UNCHANGED nonRunnerVars
    /\ UNCHANGED <<image_tags, max_workers, invoked, logged, post_calls, peak>>

\* A runner whose caller may call run() more than once.
RunnerRerunNext ==
    \/ RunnerNext
    \/ RunAgain

-----------------------------------------------------------------------------
(* DatabaseAPI: _get, _patch, _put, _delete, _upsert against one endpoint,  *)
(* called by two clients of the same remote store.                          *)

Clients == {"c1", "c2"}

\* requests.Response.ok
Ok(status) == status < 400

\* The remote store. An etag names one revision of the entity: every accepted
\* write gives the entity an etag never used before. 0 stands for "no etag":
\* no _etag field in a body, None in the client, no If-Match header.
SrvInitial == {[exists |-> e, etag |-> IF e THEN 1 ELSE 0, next |-> 2, writer |-> "none"] : e \in BOOLEAN}

\* Statuses the store may answer a GET on the endpoint with.
GetStatuses == IF srv.exists THEN {200, 500} ELSE {404, 500}

\* The _etag field of the body answered with `status` (0: the body has none).
BodyEtag(status) == IF status = 200 THEN srv.etag ELSE 0

\* The store's answer to a write carrying If-Match `if_match` (0: no header).
WriteStatus(method, if_match) ==
    CASE if_match = 0 /\ srv.exists -> 428
      [] if_match = 0 /\ method = "PUT" -> 201
      [] ~srv.exists -> 404
      [] if_match # srv.etag -> 412
      [] method = "DELETE" -> 204
      [] OTHER -> 200

\* The store after answering `status` to client c's write.
SrvAfter(method, status, c) ==
    IF ~Ok(status) THEN srv
    ELSE IF method = "DELETE"
         THEN [srv EXCEPT !.exists = FALSE, !.etag = 0, !.writer = c]
         ELSE [srv EXCEPT !.exists = TRUE, !.etag = srv.next, !.next = srv.next + 1,
                          !.writer = c]

\* A client that is in no call and has made none.
IdleClient ==
    [pc |-> "idle", op |-> "none", etag |-> 0, get_status |-> 0, get_etag |-> 0,
     resp |-> 0, err |-> "none", gets |-> 0, writes |-> 0, calls |-> 0,
     method |-> "none", if_match |-> 0, get_logged |-> FALSE,
     stale |-> FALSE, conflict |-> FALSE,
     prev_op |-> "none", prev_resp |-> 0]

MutatorIdle ==
    /\ srv = [exists |-> TRUE, etag |-> 1, next |-> 2, writer |-> "none"]
    /\ client = [c \in Clients |-> IdleClient]
    /\ lost = FALSE

MutatorInit ==
    /\ srv \in SrvInitial
    /\ client = [c \in Clients |-> IdleClient]
    /\ lost = FALSE

Ops == {"patch", "delete", "upsert"}
EndpointArgs == {"url", "", "notstr"}
EntityArgs == {"entity", "None"}

\* The argument checks at the head of _patch, _delete and _upsert, in their order.
ArgError(op, endpoint, entity) ==
    IF op = "upsert" /\ entity = "None" THEN "TypeError"
    ELSE IF endpoint = "notstr" THEN "TypeError"
    ELSE IF endpoint = "" THEN "ValueError"
    ELSE "none"

\* A client that keeps the etag of its previous call and, holding one, goes
\* straight to the write.
BeginCall_KeepEtag(c, op, endpoint, entity) ==
    /\ client[c].pc \in {"idle", "returned", "raised"}
    /\ client[c].calls < MaxCalls
    /\ client' = [client EXCEPT ![c] =
          [IdleClient EXCEPT
             !.calls = client[c].calls + 1,
             !.prev_op = client[c].op,
             !.prev_resp = client[c].resp,
             !.op = op,
             !.etag = client[c].etag,
             !.err = ArgError(op, endpoint, entity),
             !.pc = IF ArgError(op, endpoint, entity) # "none" THEN "raised"
                    ELSE IF client[c].etag # 0 THEN "write" ELSE "get"]]
    /\ UNCHANGED <<srv, lost>>
    /\ UNCHANGED nonMutatorVars

\* A call of _patch, _delete or _upsert is entered and its arguments checked.
\* Nothing of the previous call is kept but its op and response (prev_op,
\* prev_resp: the history the properties read).
BeginCall(c, op, endpoint, entity) ==
    /\ client[c].pc \in {"idle", "returned", "raised"}
    /\ client[c].calls < MaxCalls
    /\ client' = [client EXCEPT ![c] =
          [IdleClient EXCEPT
             !.calls = client[c].calls + 1,
             !.prev_op = client[c].op,
             !.prev_resp = client[c].resp,
             !.op = op,
             !.err = ArgError(op, endpoint, entity),
             !.pc = IF ArgError(op, endpoint, entity) = "none" THEN "get" ELSE "raised"]]
    /\ UNCHANGED <<srv, lost>>
    /\ UNCHANGED nonMutatorVars

\* _upsert never attaching the etag it read.
EtagAfterGet_Dropped(op, status, body_etag) ==
    IF op = "upsert" THEN 0 ELSE body_etag

\* The `etag` the call holds after its GET:
\*   _patch/_delete: self._get(endpoint).json()['_etag']
\*   _upsert:        get_resp.json()['_etag'] if get_resp.ok else None
EtagAfterGet(op, status, body_etag) ==
    IF op = "upsert" THEN (IF Ok(status) THEN body_etag ELSE 0)
    ELSE body_etag

\* _patch/_delete with .get('_etag') in place of ['_etag']: a body without the
\* field yields None and the call goes on.
RaisesKeyError_Lenient(op, status, body_etag) == FALSE

\* Whether reading ['_etag'] raises KeyError: the body has no such field.
RaisesKeyError(op, status, body_etag) ==
    body_etag = 0 /\ (op # "upsert" \/ Ok(status))

\* The error_if_not_found argument of the call's _get: _upsert passes False,
\* _patch and _delete leave the default True.
ErrorIfNotFound(op) == op # "upsert"

\* A _get that treats every 404 as expected, whatever error_if_not_found is.
GetLogsError_IgnoreFlag(status, error_if_not_found) ==
    status # 404 /\ ~Ok(status)

\* Whether _get logs the response (url and content) as an error.
GetLogsError(status, error_if_not_found) ==
    IF status = 404 /\ ~error_if_not_found THEN FALSE ELSE ~Ok(status)

\* The call's GET (self._get), answered by the store, and the reading of the etag.
InnerGet(c, status) ==
    /\ client[c].pc = "get"
    /\ status \in GetStatuses
    /\ client' = [client EXCEPT ![c] =
          [@ EXCEPT
             !.gets = @ + 1,
             !.get_status = status,
             !.get_etag = BodyEtag(status),
             !.get_logged = GetLogsError(status, ErrorIfNotFound(client[c].op)),
             !.stale = FALSE,
             !.etag = IF RaisesKeyError(client[c].op, status, BodyEtag(status)) THEN 0
                      ELSE EtagAfterGet(client[c].op, status, BodyEtag(status)),
             !.err = IF RaisesKeyError(client[c].op, status, BodyEtag(status))
                     THEN "KeyError" ELSE "none",
             !.pc = IF RaisesKeyError(client[c].op, status, BodyEtag(status))
                    THEN "raised" ELSE "write"]]
    /\ UNCHANGED <<srv, lost>>
    /\ UNCHANGED nonMutatorVars

Method(op) ==
    CASE op = "patch" -> "PATCH"
      [] op = "delete" -> "DELETE"
      [] OTHER -> "PUT"

\* _delete calling requests.delete without headers=headers.
IfMatchHeader_DeleteBare(op, etag) == IF op = "delete" THEN 0 ELSE etag

\* The '_etag' value '' of a response body: present, and falsy in Python.
EmptyEtag == -1

\* A _put that sets If-Match whenever it was given an etag, the empty one too.
IfMatchHeader_AlwaysSet(op, etag) == etag

\* The If-Match header of the write (0: no header): _patch and _delete always
\* set it to etag; _put sets it only `if etag:`, which None and '' fail.
IfMatchHeader(op, etag) ==
    IF Method(op) = "PUT" /\ etag = EmptyEtag THEN 0 ELSE etag

\* A client that starts over (GET, then write) when the store answers 412.
PcAfterWrite_Retry(status) == IF status = 412 THEN "get" ELSE "returned"

\* The write's response is returned to the caller, whatever its status.
PcAfterWrite(status) == "returned"

\* The conditional write (requests.patch / requests.delete / requests.put via
\* _put), answered by the store.
Write(c) ==
    /\ client[c].pc = "write"
    /\ LET op == client[c].op
           hdr == IfMatchHeader(op, client[c].etag)
           status == WriteStatus(Method(op), hdr)
       IN  /\ srv' = SrvAfter(Method(op), status, c)
           /\ lost' = (lost \/ (Ok(status) /\ client[c].stale /\ op \in {"patch", "delete"}))
           /\ client' = [d \in Clients |->
                 IF d = c
                 THEN [client[c] EXCEPT
                         !.writes = @ + 1,
                         !.method = Method(op),
                         !.if_match = hdr,
                         !.resp = status,
                         !.conflict = (@ \/ client[c].stale),
                         !.pc = PcAfterWrite(status)]
                 ELSE [client[d] EXCEPT
                         !.stale = (@ \/ (Ok(status) /\ client[d].pc = "write"))]]
    /\ UNCHANGED nonMutatorVars

MutatorNext ==
    \/ \E c \in Clients, op \in Ops, endpoint \in EndpointArgs, entity \in EntityArgs :
          BeginCall(c, op, endpoint, entity)
    \/ \E c \in Clients, status \in {200, 404, 500} : InnerGet(c, status)
    \/ \E c \in Clients : Write(c)

-----------------------------------------------------------------------------
(* _iter_pages: DatabaseAPI._iter_pages (database_api.py), _iter_pages of   *)
(* bugswarm/common/rest_api.py and _iter_pages of bugswarmcommon/rest_api.py *)

Variants == {"database_api", "rest_api", "legacy"}

\* What a GET of link k may be answered with, in a collection of n pages:
\*   a 200 body with an _items list of 0..MaxPerPage items and either no next
\*   link, a next link to page k+1, or a next link back to page 1;
\*   a 200 body without _items; a 404 error body (no _items, no _links).
\* next = 0 stands for "no _links.next.href".
PageShapes(k, n) ==
    {[status |-> 200, has_items |-> TRUE, count |-> m, next |-> x] :
        m \in 0..MaxPerPage, x \in ({0, 1} \cup (IF k < n THEN {k + 1} ELSE {}))}
    \cup {[status |-> 200, has_items |-> FALSE, count |-> 0, next |-> 0],
          [status |-> 404, has_items |-> FALSE, count |-> 0, next |-> 0]}

\* The _items of page k: item j of page k is <<k, j>>.
Items(k) == [j \in 1..pages[k].count |-> <<k, j>>]

PagesIdle ==
    /\ variant = "database_api"
    /\ pages = <<>>
    /\ ppc = "idle"
    /\ next_link = 0
    /\ results = <<>>
    /\ visited = <<>>
    /\ perr = "none"

PagesInit ==
    /\ variant \in Variants
    /\ \E n \in 1..MaxPages :
          pages \in {f \in [1..n -> UNION {PageShapes(k, n) : k \in 1..n}] :
                        \A k \in 1..n : f[k] \in PageShapes(k, n)}
    /\ ppc = "idle"
    /\ next_link = 0
    /\ results = <<>>
    /\ visited = <<>>
    /\ perr = "none"

\* The argument checks at the head of _iter_pages.
StartLinkError(start_link) ==
    IF start_link = "notstr" THEN "TypeError"
    ELSE IF start_link = "" THEN "ValueError"
    ELSE "none"

\* _iter_pages up to the loop: argument checks, results = [], next_link = start_link.
\* The link "url" is the collection's first page.
IterBegin(start_link) ==
    /\ ppc = "idle"
    /\ perr' = StartLinkError(start_link)
    /\ ppc' = IF StartLinkError(start_link) = "none" THEN "loop" ELSE "raised"
    /\ next_link' = IF StartLinkError(start_link) = "none" THEN 1 ELSE 0
    /\ results' = <<>>
    /\ UNCHANGED <<variant, pages, visited>>
    /\ UNCHANGED nonPagesVars

\* StepKind without the `except KeyError: break` around the read of '_items'
\* (as the legacy version is written).
StepKind_NoCatch(v, page) ==
    CASE v = "database_api" /\ ~Ok(page.status) -> "raise_http"
      [] ~page.has_items -> "raise_key"
      [] v = "database_api" /\ page.count = 0 -> "stop"
      [] page.next = 0 -> "append_stop"
      [] OTHER -> "append_next"

\* StepKind without `if not next_json['_items']: break` (as the two older
\* versions are written).
StepKind_NoEmptyCheck(v, page) ==
    CASE v = "database_api" /\ ~Ok(page.status) -> "raise_http"
      [] ~page.has_items -> IF v = "legacy" THEN "raise_key" ELSE "stop"
      [] page.next = 0 -> "append_stop"
      [] OTHER -> "append_next"

\* What one iteration of the loop does with the page it got:
\*   database_api: raise_for_status(); no '_items' -> break; empty '_items' ->
\*                 break; results += items; no next href -> break
\*   rest_api:     no '_items' -> break; results += items; no next href -> break
\*   legacy:       results += next_json['_items'] (KeyError when missing);
\*                 no next href -> break
StepKind(v, page) ==
    CASE v = "database_api" /\ ~Ok(page.status) -> "raise_http"
      [] ~page.has_items -> IF v = "legacy" THEN "raise_key" ELSE "stop"
      [] v = "database_api" /\ page.count = 0 -> "stop"
      [] page.next = 0 -> "append_stop"
      [] OTHER -> "append_next"

\* `results = items`, losing what earlier pages gave.
Accumulate_Overwrite(acc, items) == items

\* results += next_json['_items']
Accumulate(acc, items) == acc \o items

\* An iteration that remembers the links it has fetched and leaves the loop
\* instead of following a next link to one of them.
IterStep_LoopDetect ==
    /\ ppc = "loop"
    /\ Len(visited) < MaxGets
    /\ LET page == pages[next_link]
           seen == page.next = next_link \/ \E i \in 1..Len(visited) : visited[i] = page.next
           kind == IF StepKind(variant, page) = "append_next" /\ seen
                   THEN "append_stop" ELSE StepKind(variant, page)
       IN  /\ visited' = Append(visited, next_link)
           /\ results' = IF kind \in {"append_stop", "append_next"}
                         THEN Accumulate(results, Items(next_link))
                         ELSE results
           /\ next_link' = IF kind = "append_next" THEN page.next ELSE next_link
           /\ ppc' = CASE kind = "append_next" -> "loop"
                       [] kind \in {"raise_http", "raise_key"} -> "raised"
                       [] OTHER -> "returned"
           /\ perr' = CASE kind = "raise_http" -> "HTTPError"
                        [] kind = "raise_key" -> "KeyError"
                        [] OTHER -> "none"
    /\ UNCHANGED <<variant, pages>>
    /\ UNCHANGED nonPagesVars

\* One iteration of `while next_link:`: the GET of next_link and what follows it.
IterStep ==
    /\ ppc = "loop"
    /\ Len(visited) < MaxGets
    /\ LET page == pages[next_link]
           kind == StepKind(variant, page)
       IN  /\ visited' = Append(visited, next_link)
           /\ results' = IF kind \in {"append_stop", "append_next"}
                         THEN Accumulate(results, Items(next_link))
                         ELSE results
           /\ next_link' = IF kind = "append_next" THEN page.next ELSE next_link
           /\ ppc' = CASE kind = "append_next" -> "loop"
                       [] kind \in {"raise_http", "raise_key"} -> "raised"
                       [] OTHER -> "returned"
           /\ perr' = CASE kind = "raise_http" -> "HTTPError"
                        [] kind = "raise_key" -> "KeyError"
                        [] OTHER -> "none"
    /\ UNCHANGED <<variant, pages>>
    /\ UNCHANGED nonPagesVars

PagesNext ==
    \/ \E start_link \in EndpointArgs : IterBegin(start_link)
    \/ IterStep

-----------------------------------------------------------------------------
(* download_log and _get_log_from_url *)

\* aws_log_link and travis_log_link, in the order download_log tries them.
LogUrls == {"aws", "travis"}

\* sleep_duration = 3  # Seconds.
sleep_duration == 3

\* Python's None, the bytes b'' that url.read() can return, and the
\* destination path not being a file.
None == <<>>
EmptyBytes == <<"empty">>
Absent == <<"absent">>
OldFile == <<"old">>

\* bool(value) of what _get_log_from_url returns.
Truthy(value) == value \notin {None, EmptyBytes}

\* What one urlopen(log_url) + url.read() does: deliver the log, deliver no
\* bytes, raise URLError, or raise ConnectionResetError.
AttemptOutcomes == {"content", "empty", "urlerror", "reset"}

JobIdArgs == {"", "123"}
DestinationArgs == {"", "path"}

IdleDl ==
    [pc |-> "idle", job_id |-> "", destination |-> "", overwrite |-> TRUE,
     retries |-> 0, url |-> "aws", retry_count |-> 0,
     attempts |-> [u \in LogUrls |-> 0], resets |-> [u \in LogUrls |-> 0],
     urlerrors |-> [u \in LogUrls |-> 0],
     last_ok |-> [u \in LogUrls |-> None], order |-> <<>>,
     done |-> [u \in LogUrls |-> FALSE], fetched |-> [u \in LogUrls |-> None],
     slept |-> 0, ret |-> "unset", err |-> "none", file |-> Absent,
     file0 |-> Absent]

LogIdle == dl = IdleDl

\* Before the call the destination either is a file already or is not.
\* file0 keeps what the destination was before the call.
LogInit == \E f \in {Absent, OldFile} : dl = [IdleDl EXCEPT !.file = f, !.file0 = f]

\* A download_log that never looks at the destination before downloading.
DlArgError_NoOverwriteCheck(job_id, destination, overwrite, file) ==
    CASE job_id = "" -> "ValueError"
      [] destination = "" -> "ValueError"
      [] OTHER -> "none"

\* The checks of download_log before any network access.
DlArgError(job_id, destination, overwrite, file) ==
    CASE job_id = "" -> "ValueError"
      [] destination = "" -> "ValueError"
      [] file # Absent /\ ~overwrite -> "FileExistsError"
      [] OTHER -> "none"

\* download_log(job_id, destination, overwrite, retries) up to the first
\* _get_log_from_url(aws_log_link, retries).
DlCall(job_id, destination, overwrite, retries) ==
    /\ dl.pc = "idle"
    /\ LET e == DlArgError(job_id, destination, overwrite, dl.file)
       IN  dl' = [dl EXCEPT !.job_id = job_id, !.destination = destination,
                            !.overwrite = overwrite, !.retries = retries,
                            !.err = e,
                            !.pc = IF e = "none" THEN "fetch" ELSE "raised"]
    /\ UNCHANGED nonLogVars

\* A downloader that allows one retry more than its budget.
GivesUp_OneMore(retry_count, max_retries) == retry_count = max_retries + 1

\* if retry_count == max_retries: ... return None
GivesUp(retry_count, max_retries) == retry_count = max_retries

\* What the caller of _get_log_from_url(log_url, max_retries) receives when
\* the call at depth retry_count ended with value: the recursive call's value
\* is not returned by the frame that made it.
ReturnedToCaller(retry_count, value) ==
    IF retry_count = 0 THEN value ELSE None

\* A download_log that writes the destination whatever it downloaded.
DlFinish_WriteAlways(d, content) ==
    [d EXCEPT !.pc = "returned",
              !.ret = IF Truthy(content) THEN "True" ELSE "False",
              !.file = content]

\* The rest of download_log once content is known.
DlFinish(d, content) ==
    IF Truthy(content)
    THEN [d EXCEPT !.pc = "returned", !.ret = "True", !.file = content]
    ELSE [d EXCEPT !.pc = "returned", !.ret = "False"]

\* One urlopen of the current URL inside _get_log_from_url, with everything
\* that follows it up to the next urlopen or the return of download_log.
DlAttempt(outcome) ==
    /\ dl.pc = "fetch"
    /\ LET u == dl.url
           k == dl.attempts[u] + 1
           value == CASE outcome = "content" -> <<u, k>>
                      [] outcome = "empty" -> EmptyBytes
                      [] OTHER -> None
           retry == outcome = "reset" /\ ~GivesUp(dl.retry_count, dl.retries)
           top == ReturnedToCaller(dl.retry_count, value)
           d1 == [dl EXCEPT !.attempts[u] = k,
                            !.order = Append(@, u),
                            !.resets[u] = IF outcome = "reset" THEN @ + 1 ELSE @,
                            !.urlerrors[u] = IF outcome = "urlerror" THEN @ + 1 ELSE @,
                            !.last_ok[u] = IF outcome = "content" THEN value ELSE @]
           d2 == [d1 EXCEPT !.done[u] = TRUE, !.fetched[u] = top]
       IN  dl' = IF retry
                 THEN [d1 EXCEPT !.retry_count = @ + 1,
                                 !.slept = @ + sleep_duration]
                 ELSE IF u = "aws" /\ ~Truthy(top)
                      THEN [d2 EXCEPT !.url = "travis", !.retry_count = 0]
                      ELSE DlFinish(d2, top)
    /\ UNCHANGED nonLogVars

LogNext ==
    \/ \E job_id \in JobIdArgs, destination \in DestinationArgs,
          overwrite \in BOOLEAN, retries \in 0..MaxRetries :
            DlCall(job_id, destination, overwrite, retries)
    \/ \E outcome \in AttemptOutcomes : DlAttempt(outcome)

-----------------------------------------------------------------------------
(* TravisWrapper._get *)

\* _SLEEP_SECONDS = 5
SLEEP_SECONDS == 5

\* Status codes and bodies the Travis API answers with in the model.
TravisCodes == {200, 403, 404, 429, 500}
TravisBodies == {"j1", "j2"}

IdleTw ==
    [pc |-> "idle", responses |-> <<>>, sleeps |-> <<>>,
     ret |-> "unset", err |-> "none", err_code |-> 0]

TravisIdle == tw = IdleTw

TravisInit == tw = IdleTw

\* _get(address) enters its `while True:` loop.
TwCall ==
    /\ tw.pc = "idle"
    /\ tw' = [tw EXCEPT !.pc = "polling"]
    /\ UNCHANGED nonTravisVars

\* A _get that also sleeps and requests again on 500.
Classify_RetryServerError(code) ==
    CASE code = 200 -> "return"
      [] code = 404 -> "raise_http"
      [] code \in {429, 500} -> "sleep"
      [] OTHER -> "raise_conn"

\* The if/elif chain of _get on response.status_code.
Classify(code) ==
    CASE code = 200 -> "return"
      [] code = 404 -> "raise_http"
      [] code = 429 -> "sleep"
      [] OTHER -> "raise_conn"

\* A _get that requests again on 429 without sleeping.
SleepCalls_None(kind) == <<>>

\* The time.sleep calls of one iteration: time.sleep(_SLEEP_SECONDS) in the
\* 429 branch, none in the others.
SleepCalls(kind) == IF kind = "sleep" THEN <<SLEEP_SECONDS>> ELSE <<>>

\* A _get that bounds its rate-limit retries: the second 429 in a row is
\* treated like any other unexpected status.
TwRequest_GivesUp(code, body) ==
    /\ tw.pc = "polling"
    /\ Len(tw.responses) < MaxPolls
    /\ LET kind == IF code = 429 /\ Len(tw.sleeps) >= 1
                   THEN "raise_conn"
                   ELSE Classify(code)
       IN  tw' = [tw EXCEPT
                    !.responses = Append(@, [code |-> code, body |-> body]),
                    !.sleeps = @ \o SleepCalls(kind),
                    !.ret = IF kind = "return" THEN body ELSE @,
                    !.err = CASE kind = "raise_http" -> "HTTPError"
                              [] kind = "raise_conn" -> "ConnectionError"
                              [] OTHER -> @,
                    !.err_code = IF kind \in {"raise_http", "raise_conn"} THEN code ELSE @,
                    !.pc = CASE kind = "return" -> "returned"
                             [] kind = "sleep" -> "polling"
                             [] OTHER -> "raised"]
    /\ UNCHANGED nonTravisVars

\* One iteration of the loop: the GET and the branch taken on its status.
TwRequest(code, body) ==
    /\ tw.pc = "polling"
    /\ Len(tw.responses) < MaxPolls
    /\ LET kind == Classify(code)
       IN  tw' = [tw EXCEPT
                    !.responses = Append(@, [code |-> code, body |-> body]),
                    !.sleeps = @ \o SleepCalls(kind),
                    !.ret = IF kind = "return" THEN body ELSE @,
                    !.err = CASE kind = "raise_http" -> "HTTPError"
                              [] kind = "raise_conn" -> "ConnectionError"
                              [] OTHER -> @,
                    !.err_code = IF kind \in {"raise_http", "raise_conn"} THEN code ELSE @,
                    !.pc = CASE kind = "return" -> "returned"
                             [] kind = "sleep" -> "polling"
                             [] OTHER -> "raised"]
    /\ UNCHANGED nonTravisVars

TravisNext ==
    \/ TwCall
    \/ \E code \in TravisCodes, body \in TravisBodies : TwRequest(code, body)

-----------------------------------------------------------------------------
(* DatabaseAPI._chunks, _bulk_insert and bulk_insert_mined_build_pairs *)

\* for chunk in DatabaseAPI._chunks(entities, 100)
BulkChunkSize == 100

\* [1, 2, ..., n]: a list of n distinct entities.
Ident(n) == [i \in 1..n |-> i]

\* A null (falsy) element of the list.
NullEntity == 0

\* The lists the model passes: every length up to MaxEntities, each also with
\* one element replaced by a null, and lengths around the chunk size.
BulkLists ==
    {Ident(n) : n \in 0..MaxEntities}
    \cup UNION {{[Ident(n) EXCEPT ![i] = NullEntity] : i \in 1..n} : n \in 1..MaxEntities}
    \cup {Ident(BulkChunkSize), Ident(BulkChunkSize + 1), Ident(2 * BulkChunkSize + 50)}

\* Status codes the API answers a POST with in the model.
PostCodes == {201, 422, 500}

IdleBulk ==
    [pc |-> "idle", entities |-> <<>>, caller |-> "none", n |-> 0,
     chunks_out |-> <<>>, posts |-> <<>>, err |-> "none", ret |-> "unset"]

BulkIdle == bulk = IdleBulk

BulkInit == \E l \in BulkLists : bulk = [IdleBulk EXCEPT !.entities = l]

\* list(range(0, stop, step)) for step >= 1: 0, step, 2 * step, ... below stop.
RangeFrom0(stop, step) ==
    [k \in 1..Cardinality({i \in 0..(stop - 1) : i % step = 0}) |-> (k - 1) * step]

\* for i in range(0, len(l), n): yield l[i:i + n]   (i counts from 0)
Slices(l, n) ==
    LET r == RangeFrom0(Len(l), n)
    IN  [k \in 1..Len(r) |-> SubSeq(l, r[k] + 1, Min(r[k] + n, Len(l)))]

\* A _chunks that yields full chunks only.
Chunks_DropPartial(l, n) ==
    IF l = <<>> THEN <<>>
    ELSE LET m == Min(n, Len(l))
         IN  Slices(SubSeq(l, 1, (Len(l) \div m) * m), m)

\* list(_chunks(l, n)) for n >= 1: nothing for the empty list, otherwise
\* slices of n = min(n, len(l)) elements.
Chunks(l, n) ==
    IF l = <<>> THEN <<>>
    ELSE Slices(l, Min(n, Len(l)))

\* if n == 0: raise ValueError
ChunksArgError(n) == IF n = 0 THEN "ValueError" ELSE "none"

\* list(DatabaseAPI._chunks(entities, n))
ChunksCall(n) ==
    /\ bulk.pc = "idle"
    /\ LET e == ChunksArgError(n)
       IN  bulk' = [bulk EXCEPT
                      !.caller = "chunks",
                      !.n = n,
                      !.err = e,
                      !.chunks_out = IF e = "none" THEN Chunks(bulk.entities, n) ELSE @,
                      !.pc = IF e = "none" THEN "returned" ELSE "raised"]
    /\ UNCHANGED nonBulkVars

\* A _bulk_insert that does not look for null entities.
BulkArgError_NoNullCheck(entities) == "none"

\* if not all(e for e in entities): raise ValueError
BulkArgError(entities) ==
    IF \E i \in 1..Len(entities) : entities[i] = NullEntity
    THEN "ValueError" ELSE "none"

\* Who consumes the generator _bulk_insert returns: a loop over every response
\* ("iterate"), or all(...) in bulk_insert_mined_build_pairs ("all").
BulkCallers == {"iterate", "all"}

\* What the consumer has when the generator is exhausted.
RetExhausted(caller) == IF caller = "all" THEN "True" ELSE "responses"

\* The first next() on the generator, up to its first POST: the argument
\* checks, and the end of the generator when there is no chunk.
BulkBegin(caller) ==
    /\ bulk.pc = "idle"
    /\ LET e == BulkArgError(bulk.entities)
           none_to_send == Chunks(bulk.entities, BulkChunkSize) = <<>>
       IN  bulk' = [bulk EXCEPT
                      !.caller = caller,
                      !.err = e,
                      !.ret = IF e = "none" /\ none_to_send THEN RetExhausted(caller) ELSE @,
                      !.pc = CASE e # "none" -> "raised"
                               [] none_to_send -> "returned"
                               [] OTHER -> "loop"]
    /\ UNCHANGED nonBulkVars

\* all() returns False at the first falsy element and asks the generator for
\* nothing more; a Response is truthy exactly when it is ok.
AllStops(caller, status) == caller = "all" /\ ~Ok(status)

\* resp = self._post(endpoint, chunk); yield resp -- and the consumer's
\* reaction to the response.
BulkPost(status) ==
    /\ bulk.pc = "loop"
    /\ LET chunks == Chunks(bulk.entities, BulkChunkSize)
           k == Len(bulk.posts) + 1
           stop == AllStops(bulk.caller, status)
           last == k = Len(chunks)
       IN  bulk' = [bulk EXCEPT
                      !.posts = Append(@, [chunk |-> chunks[k], status |-> status]),
                      !.ret = CASE stop -> "False"
                                [] last -> RetExhausted(bulk.caller)
                                [] OTHER -> @,
                      !.pc = IF stop \/ last THEN "returned" ELSE "loop"]
    /\ UNCHANGED nonBulkVars

BulkNext ==
    \/ \E n \in (0..MaxChunk) \cup {BulkChunkSize} : ChunksCall(n)
    \/ \E caller \in BulkCallers : BulkBegin(caller)
    \/ \E status \in PostCodes : BulkPost(status)

-----------------------------------------------------------------------------
(* One call of a convenience REST method of DatabaseAPI (_get, _post,       *)
(* _patch, _put, _delete, _insert, _upsert, _list, _filter, _count) or of   *)
(* _insert of bugswarmcommon/rest_api.py, with the responses drawn freely.  *)

CallOps == {"get", "post", "patch", "put", "delete", "insert", "upsert",
            "list", "filter", "count", "legacy_insert"}

\* The arguments of a call: endpoint, entity/data, error_if_not_found (_get),
\* etag (_put; 0 is None) and api_filter (_filter). A method reads its own.
CallArgs ==
    [endpoint : EndpointArgs, entity : EntityArgs, einf : BOOLEAN,
     etag : {0, 1}, api_filter : {"", "where"}]

\* Responses to the GET of an entity or of an endpoint (etag 0: the body has
\* no _etag field; EmptyEtag: the field is there and empty; has_total: the
\* body has _meta.total), and status codes of the answers to writes and to
\* POSTs.
GetResponses ==
    {[status |-> st_etag[1], etag |-> st_etag[2], has_total |-> t] :
        st_etag \in {<<200, 1>>, <<200, 0>>, <<200, EmptyEtag>>,
                     <<401, 0>>, <<404, 0>>, <<500, 0>>},
        t \in BOOLEAN}
WriteCodes == {200, 204, 412, 422}
InsertCodes == {201, 413, 422, 500}

\* Pages answered to the GETs of _iter_pages (next 1: the body has a next link).
CallPages ==
    {[status |-> 200, has_items |-> TRUE, count |-> m, next |-> x] :
        m \in 0..1, x \in 0..1}
    \cup {[status |-> 200, has_items |-> FALSE, count |-> 0, next |-> 0],
          [status |-> 404, has_items |-> FALSE, count |-> 0, next |-> 0]}

IdleCall ==
    [pc |-> "idle", op |-> "none",
     args |-> [endpoint |-> "url", entity |-> "entity", einf |-> TRUE,
               etag |-> 0, api_filter |-> "where"],
     einf |-> TRUE, etag |-> 0, get_etag |-> 0, used_chunked |-> FALSE,
     reqs |-> <<>>, errlog |-> <<>>, warnlog |-> <<>>,
     err |-> "none", ret |-> <<>>]

CallIdle == call = IdleCall

CallInit == call = IdleCall

\* A method that checks its entity but not its endpoint.
CallArgError_NoEndpointCheck(op, a) ==
    IF op \in {"insert", "upsert", "legacy_insert"} /\ a.entity = "None" THEN "TypeError"
    ELSE IF op = "filter" /\ a.api_filter = "" THEN "ValueError"
    ELSE "none"

\* The argument checks at the head of each method, in their order:
\*   _insert/_upsert: `if entity is None: raise TypeError` comes first;
\*   all: `if not isinstance(endpoint, Endpoint): raise TypeError`,
\*        `if not endpoint: raise ValueError`;
\*   _filter: `if not api_filter: raise ValueError` comes last.
CallArgError(op, a) ==
    IF op \in {"insert", "upsert", "legacy_insert"} /\ a.entity = "None" THEN "TypeError"
    ELSE IF a.endpoint = "notstr" THEN "TypeError"
    ELSE IF a.endpoint = "" THEN "ValueError"
    ELSE IF op = "filter" /\ a.api_filter = "" THEN "ValueError"
    ELSE "none"

\* The first request of a method whose arguments passed the checks.
FirstStep(op) ==
    CASE op \in {"get", "count", "patch", "delete", "upsert"} -> "get"
      [] op = "put" -> "write"
      [] op \in {"post", "insert", "legacy_insert"} -> "post"
      [] OTHER -> "page"

\* The error_if_not_found the method's _get runs with: the argument for _get
\* itself, False in _upsert, the default True elsewhere.
CallEinf(op, a) ==
    CASE op = "get" -> a.einf
      [] op = "upsert" -> FALSE
      [] OTHER -> TRUE

\* A method is entered and its arguments checked.
CallBegin(op, a) ==
    /\ call.pc = "idle"
    /\ LET e == CallArgError(op, a)
       IN  call' = [call EXCEPT
                      !.op = op, !.args = a,
                      !.einf = CallEinf(op, a),
                      !.etag = IF op = "put" THEN a.etag ELSE 0,
                      !.err = e,
                      !.pc = IF e = "none" THEN FirstStep(op) ELSE "raised"]
    /\ UNCHANGED nonCallVars

\* log.error(resp.url); log.error(resp.content) for request number k.
UrlAndBody(k) == <<(<<"url", k>>), (<<"content", k>>)>>

\* The three log.error calls of the 422 branch of _insert and _upsert.
Failed422(k) == <<(<<"failed_validation", k>>), (<<"entity", k>>), (<<"content", k>>)>>

\* The GET of _get: requests.get, the logging rule, `return resp`; then what
\* the calling method does with the response. _count reads _meta.total of the
\* body, whatever the status, and returns -1 when the body has none.
CallGet(resp) ==
    /\ call.pc = "get"
    /\ LET op == call.op
           k == Len(call.reqs) + 1
           logged_now == IF GetLogsError(resp.status, call.einf) THEN UrlAndBody(k) ELSE <<>>
           key_error == op \in {"patch", "delete", "upsert"}
                        /\ RaisesKeyError(op, resp.status, resp.etag)
       IN  call' = [call EXCEPT
              !.reqs = Append(@, [method |-> "GET", status |-> resp.status,
                                  if_match |-> 0, chunked |-> FALSE]),
              !.errlog = @ \o logged_now,
              !.get_etag = resp.etag,
              !.etag = IF op \in {"patch", "delete", "upsert"} /\ ~key_error
                       THEN EtagAfterGet(op, resp.status, resp.etag) ELSE @,
              !.err = IF key_error THEN "KeyError" ELSE @,
              !.ret = CASE op = "get" -> <<"resp", k>>
                        [] op = "count" /\ resp.has_total -> <<"total">>
                        [] op = "count" -> <<"minus_one">>
                        [] OTHER -> @,
              !.pc = CASE op \in {"get", "count"} -> "returned"
                       [] key_error -> "raised"
                       [] OTHER -> "write"]
    /\ UNCHANGED nonCallVars

\* requests.patch / requests.delete / requests.put, the logging of a response
\* that is not ok, the 422 branch of _upsert, `return resp`.
CallWrite(status) ==
    /\ call.pc = "write"
    /\ LET op == call.op
           k == Len(call.reqs) + 1
       IN  call' = [call EXCEPT
              !.reqs = Append(@, [method |-> Method(op), status |-> status,
                                  if_match |-> IfMatchHeader(op, call.etag),
                                  chunked |-> FALSE]),
              !.errlog = @ \o (IF Ok(status) THEN <<>> ELSE UrlAndBody(k))
                           \o (IF op = "upsert" /\ status = 422 THEN Failed422(k) ELSE <<>>),
              !.ret = <<"resp", k>>,
              !.pc = "returned"]
    /\ UNCHANGED nonCallVars

\* f.write(json.dumps(entity)) on tempfile.TemporaryFile(), a file opened in
\* binary mode: writing a str raises TypeError.
TempFileWriteRaises == TRUE

\* requests.post in _post, the logging of a response that is not ok, and what
\* _insert (422 branch) or check_resp of the older _insert does next.
CallPost(status) ==
    /\ call.pc = "post"
    /\ LET op == call.op
           k == Len(call.reqs) + 1
           retry == op = "legacy_insert" /\ status = 413 /\ ~call.used_chunked
       IN  call' = [call EXCEPT
              !.reqs = Append(@, [method |-> "POST", status |-> status,
                                  if_match |-> 0, chunked |-> call.used_chunked]),
              !.errlog = @ \o (IF Ok(status) THEN <<>> ELSE UrlAndBody(k))
                           \o (IF op \in {"insert", "legacy_insert"} /\ status = 422
                               THEN Failed422(k) ELSE <<>>),
              !.warnlog = IF retry THEN Append(@, <<"too_large_retry", k>>) ELSE @,
              !.used_chunked = IF retry /\ ~TempFileWriteRaises THEN TRUE ELSE @,
              !.err = IF retry /\ TempFileWriteRaises THEN "TypeError" ELSE @,
              !.ret = CASE retry -> @
                        [] op = "legacy_insert" /\ Ok(status) -> <<"ok">>
                        [] op = "legacy_insert" -> <<"not_ok">>
                        [] OTHER -> <<"resp", k>>,
              !.pc = CASE retry /\ TempFileWriteRaises -> "raised"
                       [] retry -> "post"
                       [] OTHER -> "returned"]
    /\ UNCHANGED nonCallVars

\* One iteration of the loop of _iter_pages, entered from _list or _filter.
CallPage(page) ==
    /\ call.pc = "page"
    /\ Len(call.reqs) < MaxGets
    /\ LET k == Len(call.reqs) + 1
           kind == StepKind("database_api", page)
       IN  call' = [call EXCEPT
              !.reqs = Append(@, [method |-> "GET", status |-> page.status,
                                  if_match |-> 0, chunked |-> FALSE]),
              !.errlog = @ \o (IF GetLogsError(page.status, TRUE) THEN UrlAndBody(k) ELSE <<>>),
              !.err = CASE kind = "raise_http" -> "HTTPError"
                        [] kind = "raise_key" -> "KeyError"
                        [] OTHER -> @,
              !.ret = IF kind \in {"stop", "append_stop"} THEN <<"list">> ELSE @,
              !.pc = CASE kind = "append_next" -> "page"
                       [] kind \in {"raise_http", "raise_key"} -> "raised"
                       [] OTHER -> "returned"]
    /\ UNCHANGED nonCallVars

\* The request a method is about to send.
PendingMethod(pc, op) ==
    CASE pc \in {"get", "page"} -> "GET"
      [] pc = "post" -> "POST"
      [] OTHER -> Method(op)

\* An _upsert that catches the exception of its GET and goes on as if the
\* entity had not been found.
CallTransportError_UpsertSwallows ==
    /\ call.pc \in {"get", "write", "post", "page"}
    /\ LET swallowed == call.op = "upsert" /\ call.pc = "get"
       IN  call' = [call EXCEPT
              !.reqs = Append(@, [method |-> PendingMethod(call.pc, call.op),
                                  status |-> 0,
                                  if_match |-> IF call.pc = "write"
                                               THEN IfMatchHeader(call.op, call.etag)
                                               ELSE 0,
                                  chunked |-> call.used_chunked]),
              !.err = IF swallowed THEN @ ELSE "ConnectionError",
              !.pc = IF swallowed THEN "write" ELSE "raised"]
    /\ UNCHANGED nonCallVars

\* requests.get / post / patch / put / delete raises instead of returning a
\* response (status 0: there is none). No method has a try around its
\* request, so the exception leaves the method at once.
CallTransportError ==
    /\ call.pc \in {"get", "write", "post", "page"}
    /\ call' = [call EXCEPT
          !.reqs = Append(@, [method |-> PendingMethod(call.pc, call.op),
                              status |-> 0,
                              if_match |-> IF call.pc = "write"
                                           THEN IfMatchHeader(call.op, call.etag)
                                           ELSE 0,
                              chunked |-> call.used_chunked]),
          !.err = "ConnectionError",
          !.pc = "raised"]
    /\ UNCHANGED nonCallVars

CallNext ==
    \/ \E op \in CallOps, a \in CallArgs : CallBegin(op, a)
    \/ \E resp \in GetResponses : CallGet(resp)
    \/ \E status \in WriteCodes : CallWrite(status)
    \/ \E status \in InsertCodes : CallPost(status)
    \/ \E page \in CallPages : CallPage(page)

\* The methods over a transport that may fail.
CallNetNext ==
    \/ CallNext
    \/ CallTransportError

-----------------------------------------------------------------------------
(* TravisWrapper._get_iterate *)

\* The values of the 'number' field of the items the Travis API lists; '1' is
\* the number of a repository's first build.
Numbers == {"1", "2"}

\* A page as _get returns it: the list of its items, each given by its number.
GiPages == UNION {[1..n -> Numbers] : n \in 0..MaxPerPage}

\* The last element of a non-empty list: result[-1].
Last(s) == s[Len(s)]

IdleGi ==
    [pc |-> "idle", params |-> <<>>, fetched |-> <<>>, result |-> <<>>,
     idx |-> 0, after_number |-> "None", yielded |-> <<>>, err |-> "none"]

IterIdle == gi = IdleGi

IterInit == gi = IdleGi

\* The caller starts to consume the generator: its body runs up to the first
\* self._get(address, **kwargs).
GiCall ==
    /\ gi.pc = "idle"
    /\ gi' = [gi EXCEPT !.pc = "fetch"]
    /\ UNCHANGED nonIterVars

\* The parameters of the request: the caller's kwargs for the first one,
\* after_number alone for the following ones.
GiParams(after_number) ==
    IF after_number = "None" THEN "kwargs" ELSE after_number

\* self._get(...) returns a page; `if not result: return`, else the loop over
\* its items begins.
GiFetch(page) ==
    /\ gi.pc = "fetch"
    /\ Len(gi.params) < MaxFetch
    /\ gi' = [gi EXCEPT
                !.params = Append(@, GiParams(gi.after_number)),
                !.fetched = Append(@, page),
                !.result = page,
                !.idx = 1,
                !.pc = IF page = <<>> THEN "returned" ELSE "yield"]
    /\ UNCHANGED nonIterVars

\* self._get(...) raises (404, or a status other than 200 and 429): the
\* exception leaves the generator.
GiFetchRaise(e) ==
    /\ gi.pc = "fetch"
    /\ Len(gi.params) < MaxFetch
    /\ gi' = [gi EXCEPT
                !.params = Append(@, GiParams(gi.after_number)),
                !.err = e,
                !.pc = "raised"]
    /\ UNCHANGED nonIterVars

\* `yield i` of the next item of the page: the generator hands the item to
\* its consumer and is suspended there. After the last item of the page the
\* rest of the loop body runs only when the consumer asks for another item.
GiYield ==
    /\ gi.pc = "yield"
    /\ LET last == gi.idx = Len(gi.result)
       IN  gi' = [gi EXCEPT
                    !.yielded = Append(@, gi.result[gi.idx]),
                    !.idx = IF last THEN @ ELSE @ + 1,
                    !.pc = IF last THEN "resume" ELSE "yield"]
    /\ UNCHANGED nonIterVars

\* A generator that continues from the number of the first item of the page.
GiResume_AfterFirst ==
    /\ gi.pc = "resume"
    /\ LET number == gi.result[1]
       IN  gi' = [gi EXCEPT
                    !.after_number = number,
                    !.pc = IF number = "1" THEN "returned" ELSE "fetch"]
    /\ UNCHANGED nonIterVars

\* The consumer asks for the item after the last one of the page: the for
\* loop ends, after_number = result[-1]['number'] and
\* `if after_number == '1': return`; otherwise the while loop goes round to
\* the next self._get.
GiResume ==
    /\ gi.pc = "resume"
    /\ LET number == Last(gi.result)
       IN  gi' = [gi EXCEPT
                    !.after_number = number,
                    !.pc = IF number = "1" THEN "returned" ELSE "fetch"]
    /\ UNCHANGED nonIterVars

IterNext ==
    \/ GiCall
    \/ \E page \in GiPages : GiFetch(page)
    \/ \E e \in {"HTTPError", "ConnectionError"} : GiFetchRaise(e)
    \/ GiYield
    \/ GiResume

-----------------------------------------------------------------------------
(* remove_mined_build_pairs_for_repo and replace_mined_build_pairs_for_repo *)

\* The version that runs: the DatabaseAPI method, or the module-level
\* function of rest_api.py, which inserts the new pairs one by one.
RepVariants == {"database_api", "rest_api"}

\* Answers to the GET of the filter: a page with all the repo's pairs and no
\* next link, or an error.
RepListings(n) ==
    {[status |-> 200, has_items |-> TRUE, count |-> n, next |-> 0],
     [status |-> 500, has_items |-> FALSE, count |-> 0, next |-> 0]}

\* Answers to the GET inside _delete, to the DELETE and to the POST.
RepGetResponses == {[status |-> 200, etag |-> 1], [status |-> 404, etag |-> 0]}
DeleteCodes == {204, 404, 412, 500}
RepPostCodes == {201, 422}

IdleRep ==
    [pc |-> "idle", variant |-> "database_api", existing |-> 0, new |-> 0,
     store |-> {}, listed |-> <<>>, pos |-> 0, reqs |-> <<>>, inserted |-> 0,
     errlog |-> 0, ret |-> "unset", err |-> "none"]

ReplaceIdle == rep = IdleRep

\* Before the call the store holds the repo's pairs 1..existing.
ReplaceInit ==
    \E n \in 0..MaxPairs : rep = [IdleRep EXCEPT !.existing = n, !.store = 1..n]

\* The store after it answered a DELETE of pair id with status.
StoreAfterDelete(store, id, status) ==
    IF Ok(status) THEN store \ {id} ELSE store

\* replace_mined_build_pairs_for_repo(repo, new_build_pairs) is entered with
\* m new pairs and calls remove_mined_build_pairs_for_repo(repo).
RepCall(v, m) ==
    /\ rep.pc = "idle"
    /\ rep' = [rep EXCEPT !.pc = "filter", !.variant = v, !.new = m]
    /\ UNCHANGED nonReplaceVars

\* Where the call stands once the removal loop has ended without a failure:
\* remove returns True, and the insertion begins; with no new pair there is
\* nothing to post and replace returns True.
AfterRemoval(r) ==
    IF r.new = 0
    THEN [r EXCEPT !.pc = "returned", !.ret = "True"]
    ELSE [r EXCEPT !.pc = "insert"]

\* filter_mined_build_pairs_for_repo(repo): the GET of _iter_pages (self._get,
\* which logs a response that is not ok) and what it makes of the page; the
\* list it returns is what the loop will delete.
RepFilter(page) ==
    /\ rep.pc = "filter"
    /\ LET kind == StepKind(rep.variant, page)
           listed == IF kind = "append_stop"
                     THEN [i \in 1..rep.existing |-> i]
                     ELSE <<>>
           r1 == [rep EXCEPT
                    !.reqs = Append(@, [method |-> "GET", id |-> 0,
                                        status |-> page.status]),
                    !.errlog = IF GetLogsError(page.status, TRUE) THEN @ + 1 ELSE @,
                    !.listed = listed,
                    !.pos = 1]
       IN  rep' = CASE kind = "raise_http" ->
                         [r1 EXCEPT !.pc = "raised", !.err = "HTTPError"]
                    [] listed = <<>> -> AfterRemoval(r1)
                    [] OTHER -> [r1 EXCEPT !.pc = "delete_get"]
    /\ UNCHANGED nonReplaceVars

\* _delete of the next listed pair: self._get(endpoint).json()['_etag'].
RepDeleteGet(resp) ==
    /\ rep.pc = "delete_get"
    /\ LET key_error == RaisesKeyError("delete", resp.status, resp.etag)
       IN  rep' = [rep EXCEPT
                     !.reqs = Append(@, [method |-> "GET", id |-> rep.listed[rep.pos],
                                         status |-> resp.status]),
                     !.errlog = IF GetLogsError(resp.status, TRUE) THEN @ + 1 ELSE @,
                     !.err = IF key_error THEN "KeyError" ELSE @,
                     !.pc = IF key_error THEN "raised" ELSE "delete_write"]
    /\ UNCHANGED nonReplaceVars

\* A removal that logs a failed delete and goes on with the next pair.
RepDelete_KeepGoing(status) ==
    /\ rep.pc = "delete_write"
    /\ LET id == rep.listed[rep.pos]
           r1 == [rep EXCEPT
                    !.reqs = Append(@, [method |-> "DELETE", id |-> id,
                                        status |-> status]),
                    !.store = StoreAfterDelete(@, id, status),
                    !.errlog = IF Ok(status) THEN @ ELSE @ + 1]
       IN  rep' = IF rep.pos = Len(rep.listed)
                  THEN AfterRemoval(r1)
                  ELSE [r1 EXCEPT !.pos = @ + 1, !.pc = "delete_get"]
    /\ UNCHANGED nonReplaceVars

\* requests.delete of _delete and `if not self._delete(...)`: a response that
\* is not ok ends remove with False, and replace with it; an ok response
\* lets the loop go on to the next pair, or end.
RepDelete(status) ==
    /\ rep.pc = "delete_write"
    /\ LET id == rep.listed[rep.pos]
           r1 == [rep EXCEPT
                    !.reqs = Append(@, [method |-> "DELETE", id |-> id,
                                        status |-> status]),
                    !.store = StoreAfterDelete(@, id, status),
                    !.errlog = IF Ok(status) THEN @ ELSE @ + 1]
       IN  rep' = CASE ~Ok(status) -> [r1 EXCEPT !.pc = "returned", !.ret = "False"]
                    [] rep.pos = Len(rep.listed) -> AfterRemoval(r1)
                    [] OTHER -> [r1 EXCEPT !.pos = @ + 1, !.pc = "delete_get"]
    /\ UNCHANGED nonReplaceVars

\* The number of pairs one POST carries: all of them in the bulk insertion of
\* DatabaseAPI (the lists of the model are shorter than a chunk), one in the
\* loop of rest_api.py.
PairsPerPost(v, m) == IF v = "database_api" THEN m ELSE 1

\* One POST of the insertion and what follows it: a response that is not ok
\* ends replace with False; the last ok response ends it with True.
RepInsert(status) ==
    /\ rep.pc = "insert"
    /\ LET n == rep.inserted + PairsPerPost(rep.variant, rep.new)
           r1 == [rep EXCEPT
                    !.reqs = Append(@, [method |-> "POST", id |-> 0,
                                        status |-> status]),
                    !.inserted = IF Ok(status) THEN n ELSE @,
                    !.errlog = IF Ok(status) THEN @ ELSE @ + 1]
       IN  rep' = CASE ~Ok(status) -> [r1 EXCEPT !.pc = "returned", !.ret = "False"]
                    [] n = rep.new -> [r1 EXCEPT !.pc = "returned", !.ret = "True"]
                    [] OTHER -> r1
    /\ UNCHANGED nonReplaceVars

ReplaceNext ==
    \/ \E v \in RepVariants, m \in 0..MaxPairs : RepCall(v, m)
    \/ \E page \in RepListings(rep.existing) : RepFilter(page)
    \/ \E resp \in RepGetResponses : RepDeleteGet(resp)
    \/ \E status \in DeleteCodes : RepDelete(status)
    \/ \E status \in RepPostCodes : RepInsert(status)

-----------------------------------------------------------------------------
(* Specifications *)

InitRunner == RunnerInit /\ MutatorIdle /\ PagesIdle /\ LogIdle /\ TravisIdle /\ BulkIdle /\ CallIdle /\ IterIdle /\ ReplaceIdle
SpecRunner == InitRunner /\ [][RunnerNext]_vars

\* Both versions of the runner with hooks that may raise; every thread is
\* scheduled and every hook and handler ends.
SpecRunnerVersionsFair ==
    InitRunner /\ [][RunnerVersionsNext]_vars /\ WF_vars(RunnerVersionsNext)

\* The runner of a subclass whose pre_run and post_run may raise.
SpecRunnerHooks == InitRunner /\ [][RunnerHooksNext]_vars

\* The runner with a caller that calls run() up to MaxRuns times.
SpecRunnerRerun == InitRunner /\ [][RunnerRerunNext]_vars

InitMutator == MutatorInit /\ RunnerIdle /\ PagesIdle /\ LogIdle /\ TravisIdle /\ BulkIdle /\ CallIdle /\ IterIdle /\ ReplaceIdle
SpecMutator == InitMutator /\ [][MutatorNext]_vars

InitPages == PagesInit /\ RunnerIdle /\ MutatorIdle /\ LogIdle /\ TravisIdle /\ BulkIdle /\ CallIdle /\ IterIdle /\ ReplaceIdle
SpecPages == InitPages /\ [][PagesNext]_vars

\* The traversal with a caller that calls it and GETs that are answered: a
\* step that stays possible is eventually taken.
SpecPagesFair == InitPages /\ [][PagesNext]_vars /\ WF_vars(PagesNext)

InitLog ==
    LogInit /\ RunnerIdle /\ MutatorIdle /\ PagesIdle /\ TravisIdle /\ BulkIdle /\ CallIdle /\ IterIdle /\ ReplaceIdle
SpecLog == InitLog /\ [][LogNext]_vars

InitTravis ==
    TravisInit /\ RunnerIdle /\ MutatorIdle /\ PagesIdle /\ LogIdle /\ BulkIdle /\ CallIdle /\ IterIdle /\ ReplaceIdle
SpecTravis == InitTravis /\ [][TravisNext]_vars

\* _get runs in the calling thread and every request it makes is answered:
\* the loop always takes its next iteration.
SpecTravisFair == InitTravis /\ [][TravisNext]_vars /\ WF_vars(TravisNext)

InitBulk ==
    BulkInit /\ RunnerIdle /\ MutatorIdle /\ PagesIdle /\ LogIdle /\ TravisIdle /\ CallIdle /\ IterIdle /\ ReplaceIdle
SpecBulk == InitBulk /\ [][BulkNext]_vars

InitCall ==
    CallInit /\ RunnerIdle /\ MutatorIdle /\ PagesIdle /\ LogIdle /\ TravisIdle /\ BulkIdle /\ IterIdle /\ ReplaceIdle
SpecCall == InitCall /\ [][CallNext]_vars

\* One call of a method over a transport that may raise.
SpecCallNet == InitCall /\ [][CallNetNext]_vars

InitIter ==
    IterInit /\ RunnerIdle /\ MutatorIdle /\ PagesIdle /\ LogIdle /\ TravisIdle /\ BulkIdle /\ CallIdle /\ ReplaceIdle
SpecIter == InitIter /\ [][IterNext]_vars

\* The caller consumes the generator to its end and every request is
\* answered: the generator always takes its next step.
SpecIterFair == InitIter /\ [][IterNext]_vars /\ WF_vars(IterNext)

InitReplace ==
    ReplaceInit /\ RunnerIdle /\ MutatorIdle /\ PagesIdle /\ LogIdle /\ TravisIdle /\ BulkIdle /\ CallIdle /\ IterIdle
SpecReplace == InitReplace /\ [][ReplaceNext]_vars

-----------------------------------------------------------------------------
(* Properties of the runner *)

\* Items whose handler raised an exception of class Exception.
RaisedItems == {i \in Positions : fut[i] = "raised"}

\* Items whose handler raised an exception outside class Exception.
BaseRaisedItems == {i \in Positions : fut[i] = "raised_base"}

\* The positions at which a call of run() is over: it has returned, or it has
\* been left with an exception (of a handler outside class Exception, of
\* pre_run, of post_run).
RunEnds == {"Done", "Propagated", "PreRunRaised", "PostRunRaised"}

EachItemOnce ==
    /\ \A t \in Tags : Occ(invoked, t) = Occ(image_tags, t)
    /\ Len(invoked) = Len(image_tags)

\* C1 as stated: whenever a call of run() is over, process_artifact has been
\* called exactly once per element of the work list and attempted is |W|.
C1_AsStated ==
    rpc \in RunEnds => (EachItemOnce /\ attempted = Len(image_tags))

\* C1: run() never calls process_artifact more often than the tag occurs in
\* the list. When run() is over with pre_run having returned (it returned,
\* post_run raised, or a handler's exception outside class Exception left
\* the counting loop) process_artifact has been called exactly once per
\* element of the list. attempted is |W| when the counting loop has been
\* completed; when the loop was left by a handler's exception it is the
\* number of futures visited so far, between 1 and |W|. When pre_run raised,
\* no handler was called and nothing was counted.
C1_ExactlyOncePerItem ==
    /\ \A t \in Tags : Occ(invoked, t) <= Occ(image_tags, t)
    /\ rpc \in {"Done", "PostRunRaised", "Propagated"} => EachItemOnce
    /\ rpc \in {"PostRun", "Done", "PostRunRaised"} => attempted = Len(image_tags)
    /\ rpc = "Propagated" =>
          /\ BaseRaisedItems # {}
          /\ attempted = Cardinality(counted)
          /\ attempted >= 1
          /\ attempted <= Len(image_tags)
    /\ rpc = "PreRunRaised" => (invoked = <<>> /\ attempted = 0)

\* A run over three items, one tag occurring twice, two workers used at once.
C1_Witness ==
    /\ rpc = "Done"
    /\ image_tags = <<"a", "b", "a">>
    /\ max_workers = 2
    /\ peak = 2
    /\ attempted = 3

\* C2 as stated: pre_run has returned before any item is submitted or handled,
\* post_run is entered only when every handler has returned or raised, no
\* handler is in progress while a hook is, and when a call of run() is over
\* each hook has been called exactly once.
C2_AsStated ==
    /\ pre_calls <= 1
    /\ post_calls <= 1
    /\ rpc \in {"New", "Created", "PreRun"} =>
          /\ \A i \in Positions : fut[i] = "none"
          /\ invoked = <<>>
    /\ post_calls > 0 => \A i \in Positions : fut[i] \in Finished
    /\ rpc \in RunEnds => (pre_calls = 1 /\ post_calls = 1)

\* C2: pre_run has returned before any item is submitted or handled, post_run
\* is entered only when every handler has returned or raised, no handler is in
\* progress while a hook is. pre_run is called exactly once in every run.
\* post_run is called at most once: exactly once when the counting loop has
\* been completed, and not at all when pre_run raised or when a handler's
\* exception outside class Exception left the counting loop.
C2_HooksBracketHandlers ==
    /\ pre_calls <= 1
    /\ post_calls <= 1
    /\ rpc \in {"New", "Created", "PreRun", "PreRunRaised"} =>
          /\ \A i \in Positions : fut[i] = "none"
          /\ invoked = <<>>
    /\ pre_calls = 1 <=> rpc \notin {"New", "ValueError", "Created"}
    /\ post_calls = 1 <=> rpc \in {"PostRun", "Done", "PostRunRaised"}
    /\ (rpc \in {"PostRun", "Done", "PostRunRaised"} \/ post_calls > 0) =>
          \A i \in Positions : fut[i] \in Finished
    /\ rpc \in {"Done", "PostRunRaised"} => (pre_calls = 1 /\ post_calls = 1)
    /\ rpc \in {"Propagated", "PreRunRaised"} => (pre_calls = 1 /\ post_calls = 0)
    /\ rpc = "Propagated" =>
          /\ BaseRaisedItems # {}
          /\ \A i \in Positions : fut[i] \in Finished

\* post_run in progress after a run in which two handlers overlapped.
C2_Witness ==
    /\ rpc = "PostRun"
    /\ Len(image_tags) = 3
    /\ peak >= 2
    /\ post_calls = 1

\* C3 as stated: whatever a handler raised, run() does not propagate it, and
\* once it has returned each raising item was counted as errored, every item
\* was handled to completion and post_run ran.
C3_AsStated ==
    /\ rpc # "Propagated"
    /\ (rpc = "Done" /\ RaisedItems \cup BaseRaisedItems # {}) =>
          /\ \A i \in Positions : fut[i] \in Finished
          /\ errored >= Cardinality(RaisedItems \cup BaseRaisedItems)
          /\ post_calls = 1

\* C3: a handler's exception of class Exception is not propagated by run():
\* once run() has returned, each such item was counted as errored and logged,
\* every item of the list has been handled to completion and post_run ran.
\* run() is left with an exception of a handler only from the counting loop
\* and only with an exception outside class Exception: by then every item
\* has been handled to completion, the item was counted as attempted but
\* neither as errored nor logged, the futures as_completed had not yielded
\* yet are not counted, and post_run is not called.
C3_HandlerErrorIsolated ==
    /\ BaseRaisedItems = {} => rpc # "Propagated"
    /\ rpc = "Propagated" =>
          /\ Cardinality(counted \cap BaseRaisedItems) = 1
          /\ \A i \in Positions : fut[i] \in Finished
          /\ attempted = Cardinality(counted)
          /\ succeeded = Cardinality({i \in counted : fut[i] = "truthy"})
          /\ errored = Cardinality({i \in counted : fut[i] \in {"falsy", "raised"}})
          /\ logged = Cardinality(counted \cap RaisedItems)
          /\ post_calls = 0
    /\ rpc \in {"PostRun", "Done"} => BaseRaisedItems = {}
    /\ (rpc = "Done" /\ RaisedItems # {}) =>
          /\ \A i \in Positions : fut[i] \in Finished
          /\ errored = Cardinality({i \in Positions : fut[i] \in {"falsy", "raised"}})
          /\ errored >= Cardinality(RaisedItems)
          /\ logged = Cardinality(RaisedItems)
          /\ succeeded = Cardinality({i \in Positions : fut[i] = "truthy"})
          /\ post_calls = 1

\* The first item raised an Exception and was counted, the second raised
\* outside Exception and ended run(), the third was never counted.
C3_Witness ==
    /\ rpc = "Propagated"
    /\ fut = <<"raised", "raised_base", "truthy">>
    /\ counted = {1, 2}
    /\ attempted = 2
    /\ errored = 1
    /\ logged = 1
    /\ succeeded = 0
    /\ post_calls = 0

-----------------------------------------------------------------------------
(* Properties of the mutator *)

PatchOrDelete(c) == client[c].op \in {"patch", "delete"}

\* C4: a patch or delete call does its GET before anything else and then sends
\* at most one write, of its own method, whose If-Match header is the etag of
\* the body that GET returned; no write precedes the GET.
C4_GetThenConditionalWrite ==
    \A c \in Clients : PatchOrDelete(c) =>
        /\ client[c].gets <= 1
        /\ client[c].writes <= 1
        /\ client[c].pc = "get" => client[c].gets = 0 /\ client[c].writes = 0
        /\ client[c].pc \in {"write", "returned"} => client[c].gets = 1
        /\ client[c].writes = 1 =>
              /\ client[c].gets = 1
              /\ client[c].method = Method(client[c].op)
              /\ client[c].if_match # 0
              /\ client[c].if_match = client[c].get_etag

\* A delete accepted with the etag its own GET returned, an etag that exists
\* only since the other client's write.
C4_Witness ==
    /\ client["c1"].op = "delete"
    /\ client["c1"].pc = "returned"
    /\ client["c1"].resp = 204
    /\ client["c1"].if_match = 2
    /\ client["c1"].get_etag = 2

\* C5: when the GET of a patch or delete call returned a body without an etag
\* field, the call raises KeyError and has sent no write.
C5_NoEtagNoWrite ==
    \A c \in Clients :
        (PatchOrDelete(c) /\ client[c].gets >= 1 /\ client[c].get_etag = 0) =>
            /\ client[c].pc = "raised"
            /\ client[c].err = "KeyError"
            /\ client[c].writes = 0
            /\ client[c].resp = 0

\* A patch of a missing entity and a delete answered by a server error.
C5_Witness ==
    /\ client["c1"].op = "patch"
    /\ client["c1"].get_status = 404
    /\ client["c1"].pc = "raised"
    /\ client["c2"].op = "delete"
    /\ client["c2"].get_status = 500
    /\ client["c2"].pc = "raised"

\* C6: a patch or delete whose write reaches the store after another client's
\* accepted write (made since the call's GET) is answered with a non-success
\* status, which the call returns after exactly one GET and one write; the
\* store never accepts a patch or delete based on an outdated read.
C6_StaleWriteRejectedNoRetry ==
    /\ ~lost
    /\ \A c \in Clients : (PatchOrDelete(c) /\ client[c].conflict) =>
          /\ client[c].pc = "returned"
          /\ ~Ok(client[c].resp)
          /\ client[c].gets = 1
          /\ client[c].writes = 1

\* c1's patch was answered 412 because c2 wrote between c1's GET and write;
\* the entity is still as c2 left it.
C6_Witness ==
    /\ client["c1"].op = "patch"
    /\ client["c1"].conflict
    /\ client["c1"].resp = 412
    /\ client["c1"].pc = "returned"
    /\ srv.writer = "c2"
    /\ srv.exists

\* C7: an upsert call does one GET (a 404 is not logged as an error) and then
\* one PUT; after a successful GET the PUT carries If-Match with that GET's
\* etag, after a 404 it carries no If-Match header.
C7_UpsertGetThenPut ==
    \A c \in Clients : client[c].op = "upsert" =>
        /\ client[c].gets <= 1
        /\ client[c].writes <= client[c].gets
        /\ client[c].pc = "write" => client[c].gets = 1 /\ client[c].writes = 0
        /\ client[c].pc = "returned" =>
              /\ client[c].gets = 1
              /\ client[c].writes = 1
              /\ client[c].method = "PUT"
              /\ Ok(client[c].get_status) =>
                    client[c].if_match # 0 /\ client[c].if_match = client[c].get_etag
              /\ client[c].get_status = 404 =>
                    client[c].if_match = 0 /\ ~client[c].get_logged

\* One upsert that updated the existing entity and one that created it anew.
C7_Witness ==
    /\ client["c1"].op = "upsert"
    /\ client["c1"].pc = "returned"
    /\ client["c1"].get_status = 200
    /\ client["c1"].resp = 200
    /\ client["c2"].op = "upsert"
    /\ client["c2"].pc = "returned"
    /\ client["c2"].get_status = 404
    /\ client["c2"].resp = 201

-----------------------------------------------------------------------------
(* Properties of the traverser *)

\* The items of the pages behind the links `links`, concatenated in that order.
RECURSIVE ItemsOfLinks(_)
ItemsOfLinks(links) ==
    IF links = <<>> THEN <<>>
    ELSE Items(Head(links)) \o ItemsOfLinks(Tail(links))

\* The links 1, 2, ..., n.
AllLinks == [k \in 1..Len(pages) |-> k]

\* The page the last GET returned, and what had been accumulated before it.
LastLink == visited[Len(visited)]
AccBefore == ItemsOfLinks(SubSeq(visited, 1, Len(visited) - 1))

\* The collection is a chain P1 -> ... -> Pn of pages with an items field,
\* each but the last linking to its successor, the last without next link.
LinearChain ==
    \A k \in 1..Len(pages) :
        /\ pages[k].has_items
        /\ pages[k].next = IF k < Len(pages) THEN k + 1 ELSE 0

\* Every page of the chain but the last has at least one item.
NonEmptyButLast == \A k \in 1..(Len(pages) - 1) : pages[k].count > 0

EmptyPage(k) == pages[k].has_items /\ pages[k].count = 0

\* C8 as stated: on every chain P1 -> ... -> Pn the traversal returns
\* items(P1) ++ ... ++ items(Pn) after one GET per page, and an empty first
\* page yields an empty result.
C8_AsStated ==
    (ppc = "returned" /\ LinearChain) =>
        /\ results = ItemsOfLinks(AllLinks)
        /\ visited = AllLinks
        /\ EmptyPage(1) => results = <<>>

\* C8, amended: on every chain P1 -> ... -> Pn whose pages before Pn are not
\* empty, the traversal does not raise and returns items(P1) ++ ... ++
\* items(Pn) after exactly one GET per page, in page order; a single page
\* yields its items, an empty single page the empty list.
C8_ChainConcatenation ==
    (LinearChain /\ NonEmptyButLast) =>
        /\ ppc = "raised" => perr \in {"TypeError", "ValueError"}
        /\ results = ItemsOfLinks(visited)
        /\ visited = SubSeq(AllLinks, 1, Len(visited))
        /\ ppc = "returned" =>
              /\ results = ItemsOfLinks(AllLinks)
              /\ visited = AllLinks
              /\ EmptyPage(1) => results = <<>>

\* Three pages of 2, 1 and 2 items traversed by DatabaseAPI._iter_pages.
C8_Witness ==
    /\ variant = "database_api"
    /\ ppc = "returned"
    /\ LinearChain
    /\ Len(pages) = 3
    /\ pages[1].count = 2 /\ pages[2].count = 1 /\ pages[3].count = 2
    /\ results = <<(<<1, 1>>), (<<1, 2>>), (<<2, 1>>), (<<3, 1>>), (<<3, 2>>)>>
    /\ visited = <<1, 2, 3>>

\* C9 as stated: once a GET has returned a response without items field, the
\* traversal has returned what it had accumulated and has not raised.
C9_AsStated ==
    (visited # <<>> /\ ~pages[LastLink].has_items) =>
        /\ ppc = "returned"
        /\ perr = "none"
        /\ results = AccBefore

\* C9, amended: once a GET has returned a response without items field,
\*   rest_api._iter_pages has returned what it had accumulated;
\*   DatabaseAPI._iter_pages has done so when the response was successful and
\*   has raised HTTPError when it was not (404);
\*   the legacy _iter_pages has raised KeyError.
C9_MissingItemsByVersion ==
    (visited # <<>> /\ ~pages[LastLink].has_items) =>
        CASE variant = "legacy" ->
                ppc = "raised" /\ perr = "KeyError"
          [] variant = "database_api" /\ ~Ok(pages[LastLink].status) ->
                ppc = "raised" /\ perr = "HTTPError"
          [] OTHER ->
                ppc = "returned" /\ perr = "none" /\ results = AccBefore

\* DatabaseAPI._iter_pages returned the two items of page 1 when page 2 came
\* back as a 200 body without items.
C9_Witness ==
    /\ variant = "database_api"
    /\ visited = <<1, 2>>
    /\ pages[2].status = 200
    /\ ~pages[2].has_items
    /\ ppc = "returned"
    /\ results = <<(<<1, 1>>), (<<1, 2>>)>>

\* C10 as stated: a page with an empty items list is the last page the
\* traversal GETs, and the traversal has returned.
C10_AsStated ==
    \A j \in 1..Len(visited) :
        EmptyPage(visited[j]) => j = Len(visited) /\ ppc = "returned"

\* C10, amended: DatabaseAPI._iter_pages stops at a page with an empty items
\* list, next link or not, and returns what it had accumulated; the two older
\* versions stop there only when the page has no next link and otherwise go
\* on to GET that link.
C10_EmptyPageByVersion ==
    \A j \in 1..Len(visited) :
        EmptyPage(visited[j]) =>
            IF variant = "database_api" \/ pages[visited[j]].next = 0
            THEN j = Len(visited) /\ ppc = "returned" /\ results = AccBefore
            ELSE IF j < Len(visited)
                 THEN visited[j + 1] = pages[visited[j]].next
                 ELSE ppc = "loop" /\ next_link = pages[visited[j]].next

\* DatabaseAPI._iter_pages stopped at the empty page 2 although it links to
\* page 3.
C10_Witness ==
    /\ variant = "database_api"
    /\ Len(pages) = 3
    /\ visited = <<1, 2>>
    /\ EmptyPage(2)
    /\ pages[2].next = 3
    /\ ppc = "returned"
    /\ results = <<(<<1, 1>>)>>

-----------------------------------------------------------------------------
(* Properties of the log downloader *)

\* The retries of one URL that were followed by a sleep.
Retried(u) == Min(dl.resets[u], dl.retries)

\* C11: with retry budget N, a URL is attempted at most N + 1 times; every
\* connection reset within the budget is followed by one sleep of the fixed
\* delay and another attempt of the same URL; after N + 1 resets the fetch of
\* that URL ends with no content and without raising.
C11_RetryBudget ==
    /\ \A u \in LogUrls :
        /\ dl.attempts[u] <= dl.retries + 1
        /\ (dl.pc = "fetch" /\ dl.url = u) =>
              /\ dl.attempts[u] = dl.resets[u]
              /\ dl.retry_count = dl.resets[u]
              /\ ~dl.done[u]
        /\ dl.resets[u] = dl.retries + 1 =>
              /\ dl.attempts[u] = dl.retries + 1
              /\ dl.done[u]
              /\ dl.fetched[u] = None
              /\ dl.err = "none"
              /\ dl.pc # "raised"
    /\ dl.slept = sleep_duration * (Retried("aws") + Retried("travis"))

C11_Witness ==
    /\ dl.retries = 2
    /\ dl.resets["aws"] = 3
    /\ dl.attempts["aws"] = 3
    /\ dl.done["aws"]
    /\ dl.slept = 2 * sleep_duration

\* C12 (as stated): when a URL resets j times, 1 <= j <= N, and the attempt
\* after them downloads the log, the fetch of that URL returns the downloaded
\* content and download_log reports success.
C12_AsStated ==
    \A u \in LogUrls :
        (/\ dl.done[u]
         /\ dl.resets[u] >= 1
         /\ dl.resets[u] <= dl.retries
         /\ dl.attempts[u] = dl.resets[u] + 1
         /\ dl.last_ok[u] # None)
        => /\ dl.fetched[u] = dl.last_ok[u]
           /\ dl.pc = "returned" => dl.ret = "True"

\* C13 (as stated): the primary URL is attempted first; a URLError on it is
\* not retried and the secondary URL is tried next; the secondary URL is never
\* contacted when an attempt of the primary URL delivered content.
C13_AsStated ==
    /\ dl.order # <<>> => dl.order[1] = "aws"
    /\ dl.urlerrors["aws"] > 0 =>
          /\ dl.done["aws"]
          /\ dl.attempts["aws"] = dl.resets["aws"] + 1
          /\ dl.pc = "fetch" => dl.url = "travis"
    /\ dl.attempts["travis"] > 0 => dl.last_ok["aws"] = None

-----------------------------------------------------------------------------
(* Properties of TravisWrapper._get *)

\* C14: _get classifies every response by its status: 200 returns the body,
\* 404 raises the HTTP error, 429 sleeps and requests again, anything else
\* raises ConnectionError carrying the code; only a 429 is followed by
\* another request.
C14_Classification ==
    LET r == tw.responses
        n == Len(r)
    IN  /\ \A i \in 1..(n - 1) : r[i].code = 429
        /\ tw.pc = "returned" <=> (n > 0 /\ r[n].code = 200)
        /\ tw.pc = "returned" => tw.ret = r[n].body /\ tw.err = "none"
        /\ (n > 0 /\ r[n].code = 404) =>
              tw.pc = "raised" /\ tw.err = "HTTPError" /\ tw.err_code = 404
        /\ (n > 0 /\ r[n].code \notin {200, 404, 429}) =>
              tw.pc = "raised" /\ tw.err = "ConnectionError" /\ tw.err_code = r[n].code
        /\ (n > 0 /\ r[n].code = 429) =>
              tw.pc = "polling" /\ tw.err = "none" /\ tw.ret = "unset"

C14_Witness ==
    /\ Len(tw.responses) = 2
    /\ tw.responses[1].code = 429
    /\ tw.responses[2].code = 500
    /\ tw.pc = "raised"
    /\ tw.err = "ConnectionError"

\* C15: when the API answers 429 k times and then 200, _get has slept k times
\* for the fixed delay, has sent k + 1 requests, and returns the body of the
\* 200 response.
C15_RateLimitThenSuccess ==
    tw.pc = "returned" =>
        LET k == Len(tw.responses) - 1
        IN  /\ k >= 0
            /\ \A i \in 1..k : tw.responses[i].code = 429
            /\ tw.responses[k + 1].code = 200
            /\ tw.sleeps = [i \in 1..k |-> SLEEP_SECONDS]
            /\ tw.ret = tw.responses[k + 1].body

C15_Witness ==
    /\ tw.pc = "returned"
    /\ Len(tw.responses) = 3
    /\ Len(tw.sleeps) = 2
    /\ tw.responses[3].body = "j2"
    /\ tw.ret = "j2"

-----------------------------------------------------------------------------
(* Properties of the bulk inserter *)

\* The concatenation of the sequences of ss.
RECURSIVE Flatten(_)
Flatten(ss) ==
    IF Len(ss) = 0 THEN <<>>
    ELSE IF Len(ss) = 1 THEN ss[1]
    ELSE LET h == Len(ss) \div 2
         IN  Flatten(SubSeq(ss, 1, h)) \o Flatten(SubSeq(ss, h + 1, Len(ss)))

\* ceil(a / b) for b >= 1.
Ceil(a, b) == (a + b - 1) \div b

PostedChunks == [k \in 1..Len(bulk.posts) |-> bulk.posts[k].chunk]

HasNull(l) == \E i \in 1..Len(l) : l[i] = NullEntity

\* A partition of l into ceil(|l| / c) consecutive non-empty pieces of at
\* most c elements.
IsChunking(cs, l, c) ==
    /\ Len(cs) = Ceil(Len(l), c)
    /\ \A j \in 1..Len(cs) : Len(cs[j]) >= 1 /\ Len(cs[j]) <= c
    /\ Flatten(cs) = l

\* C16: _chunks splits N >= 1 entities with chunk size C >= 1 into ceil(N/C)
\* non-empty chunks of at most C elements whose concatenation is the input;
\* a bulk insertion sends each chunk of 100 in a POST of its own, in order.
C16_Chunking ==
    /\ (/\ bulk.caller = "chunks"
        /\ bulk.pc = "returned"
        /\ Len(bulk.entities) >= 1
        /\ bulk.n >= 1)
       => IsChunking(bulk.chunks_out, bulk.entities, bulk.n)
    /\ (/\ bulk.caller = "iterate"
        /\ bulk.pc = "returned"
        /\ Len(bulk.entities) >= 1)
       => IsChunking(PostedChunks, bulk.entities, BulkChunkSize)

C16_Witness ==
    /\ bulk.caller = "iterate"
    /\ bulk.pc = "returned"
    /\ Len(bulk.entities) = 2 * BulkChunkSize + 50
    /\ Len(bulk.posts) = 3
    /\ Len(bulk.posts[1].chunk) = BulkChunkSize
    /\ Len(bulk.posts[2].chunk) = BulkChunkSize
    /\ Len(bulk.posts[3].chunk) = 50

\* C17 (as stated): a rejected chunk does not abort the batch; once a bulk
\* insertion of N entities has returned, ceil(N/100) POSTs have been issued,
\* whoever drives the insertion.
C17_AsStated ==
    (bulk.caller \in BulkCallers /\ bulk.pc = "returned")
    => Len(bulk.posts) = Ceil(Len(bulk.entities), BulkChunkSize)

\* C18 (as stated): a bulk insertion called with an empty list or with a list
\* holding a null entity fails with an argument error and issues no POST.
C18_AsStated ==
    (bulk.caller \in BulkCallers /\ (bulk.entities = <<>> \/ HasNull(bulk.entities)))
    => /\ bulk.pc = "raised"
       /\ bulk.err # "none"
       /\ bulk.posts = <<>>

\* C18 (amended): a list holding a null entity fails with ValueError and no
\* POST; an empty list raises nothing, issues no POST, and the insertion
\* returns normally (bulk_insert_mined_build_pairs returns True).
C18_NullRaisesEmptyReturns ==
    bulk.caller \in BulkCallers =>
        /\ HasNull(bulk.entities) =>
              bulk.pc = "raised" /\ bulk.err = "ValueError" /\ bulk.posts = <<>>
        /\ bulk.entities = <<>> =>
              /\ bulk.pc = "returned"
              /\ bulk.err = "none"
              /\ bulk.posts = <<>>
              /\ bulk.caller = "all" => bulk.ret = "True"

C18_Witness ==
    /\ bulk.caller = "all"
    /\ bulk.entities = <<>>
    /\ bulk.pc = "returned"
    /\ bulk.ret = "True"

-----------------------------------------------------------------------------
(* Properties of the runner's construction and result *)

\* C19 (as stated): after run() has returned, the attempted, succeeded and
\* errored counts are available to the caller, as run()'s return value or as
\* attributes of the runner.
C19_AsStated ==
    rpc = "Done" =>
        \/ RunReturn = <<attempted, succeeded, errored>>
        \/ {"attempted", "succeeded", "errored"} \subseteq RunnerAttrs

\* C20: constructing a runner with an empty work list or a worker count <= 0
\* raises ValueError; no runner exists afterwards, so no hook and no handler
\* is ever invoked and nothing is submitted.
C20_BadArgsNoRunner ==
    (image_tags = <<>> \/ max_workers <= 0) =>
        /\ rpc \in {"New", "ValueError"}
        /\ pre_calls = 0
        /\ post_calls = 0
        /\ invoked = <<>>
        /\ submitted = 0

C20_Witness ==
    /\ rpc = "ValueError"
    /\ max_workers = 0
    /\ Len(image_tags) = 3

-----------------------------------------------------------------------------
(* Properties of the runner's pool, termination and counters *)

\* Items whose handler is executing.
Running == {i \in Positions : fut[i] = "running"}

\* C21: at any moment of run() at most min(max_workers, |W|) handlers execute
\* (and at most that many items are held by worker threads); with
\* max_workers = 1 at most one handler executes at a time and the handlers are
\* invoked in the order of the work list.
C21_PoolBound ==
    rpc \notin {"New", "ValueError"} =>
        /\ Cardinality(Running) <= Min(max_workers, Len(image_tags))
        /\ Cardinality(Held) <= Min(max_workers, Len(image_tags))
        /\ peak <= Min(max_workers, Len(image_tags))
        /\ max_workers = 1 =>
              /\ Cardinality(Running) <= 1
              /\ invoked = SubSeq(image_tags, 1, Len(invoked))

C21_Witness ==
    /\ max_workers = 2
    /\ Len(image_tags) = 3
    /\ Cardinality(Running) = 2
    /\ fut[3] = "pending"

\* The positions of the older run().
OlderRun == {"OlderSubmit", "OlderShutdown", "OlderWait", "OlderDone"}

\* C22 as stated: every handler ending (returning or raising, whatever it
\* raises), a run() that has started reaches Done, in both versions of the
\* runner, with every item finished and the pool shut down.
C22_AsStated ==
    /\ [](rpc \in {"Count", "PostRun", "Done", "OlderWait", "OlderDone"} =>
            /\ \A i \in Positions : fut[i] \in Finished
            /\ Held = {}
            /\ submitted = Len(image_tags))
    /\ (rpc \in {"PreRun", "OlderSubmit"} ~> rpc \in {"Done", "OlderDone"})

\* C22: when scheduled steps are eventually taken and every hook and handler
\* ends, a run() that has started ends, and whenever it is past the with
\* block (so when it ends with the pool created) every item has finished, no
\* worker holds an item, and the executor's shutdown has returned.
\*   runners.py: run() ends at Done, or is left with an exception: of
\*     pre_run (before the pool exists, nothing submitted), of a handler
\*     outside class Exception (from the counting loop, before post_run), or
\*     of post_run. It reaches Done only when no handler raised outside
\*     class Exception.
\*   artifact_processing.py: run() has no hooks and no counting loop; after
\*     the shutdown it calls wait(), which never reads a result: it reaches
\*     Done whatever the handlers returned or raised, and counts nothing.
C22_RunBlocksUntilDone ==
    /\ [](rpc \in {"Count", "PostRun", "Done", "Propagated", "PostRunRaised",
                   "OlderWait", "OlderDone"} =>
            /\ \A i \in Positions : fut[i] \in Finished
            /\ Held = {}
            /\ submitted = Len(image_tags))
    /\ [](rpc = "PreRunRaised" =>
            /\ submitted = 0
            /\ \A i \in Positions : fut[i] = "none")
    /\ [](rpc \in {"PostRun", "Done", "PostRunRaised"} => BaseRaisedItems = {})
    /\ [](rpc = "Propagated" => BaseRaisedItems # {})
    /\ [](rpc \in OlderRun =>
            /\ pre_calls = 0
            /\ post_calls = 0
            /\ attempted = 0
            /\ logged = 0)
    /\ [][(rpc \in OlderRun) => (rpc' \in OlderRun)]_vars
    /\ (rpc \in {"PreRun", "OlderSubmit"} ~> rpc \in RunEnds \cup {"OlderDone"})

\* The older run() has returned although the handler of the second item
\* raised outside class Exception.
C22_Witness ==
    /\ rpc = "OlderDone"
    /\ Len(image_tags) = 3
    /\ max_workers = 1
    /\ fut[2] = "raised_base"

\* C23 as stated: when a call of run() is over, succeeded + errored =
\* attempted = |W|, and errored is at least the number of items whose handler
\* raised.
C23_AsStated ==
    rpc \in RunEnds =>
        /\ attempted = succeeded + errored
        /\ attempted = Len(image_tags)
        /\ errored >= Cardinality(RaisedItems \cup BaseRaisedItems)

\* C23: no update of the counters is lost, whatever the order in which the
\* workers finish: attempted is the number of futures visited by the loop.
\* While the loop runs and once it has been completed attempted = succeeded +
\* errored; once it has been completed (run() returns, or post_run raises)
\* these equal |W| and errored is at least the number of items whose handler
\* raised. When a handler's exception outside class Exception left the loop,
\* that item is counted as attempted and not as errored: attempted =
\* succeeded + errored + 1 <= |W|, and errored is the number of visited
\* futures with a falsy result or an exception of class Exception, which may
\* be less than the number of items whose handler raised. When pre_run
\* raised, nothing was counted.
C23_NoLostUpdate ==
    /\ rpc # "Propagated" => attempted = succeeded + errored
    /\ rpc = "Propagated" =>
          /\ attempted = succeeded + errored + 1
          /\ attempted <= Len(image_tags)
          /\ Cardinality(counted \cap BaseRaisedItems) = 1
    /\ attempted = Cardinality(counted)
    /\ succeeded = Cardinality({i \in counted : fut[i] = "truthy"})
    /\ errored = Cardinality({i \in counted : fut[i] \in {"falsy", "raised"}})
    /\ rpc \in {"PostRun", "Done", "PostRunRaised"} =>
          /\ attempted = Len(image_tags)
          /\ errored >= Cardinality(RaisedItems \cup BaseRaisedItems)
    /\ rpc = "PreRunRaised" => (attempted = 0 /\ counted = {})

C23_Witness ==
    /\ rpc = "Done"
    /\ Len(image_tags) = 3
    /\ max_workers = 2
    /\ peak = 2
    /\ succeeded = 1
    /\ errored = 2
    /\ Cardinality(RaisedItems) = 1

-----------------------------------------------------------------------------
(* Properties of single REST calls *)

\* C24: _get raises for no status code: whatever the GET is answered with,
\* the response is returned; a 404 with error_if_not_found false is not
\* logged, every other status >= 400 (a 404 with error_if_not_found true
\* included) is logged with the response's url and content, a success is not.
C24_GetReturnsAndLogs ==
    call.op = "get" =>
        /\ call.err # "none" => call.reqs = <<>>
        /\ call.reqs # <<>> =>
              LET st == call.reqs[1].status
              IN  /\ Len(call.reqs) = 1
                  /\ call.pc = "returned"
                  /\ call.err = "none"
                  /\ call.ret = <<"resp", 1>>
                  /\ call.errlog = IF st = 404 /\ ~call.args.einf THEN <<>>
                                   ELSE IF st >= 400 THEN UrlAndBody(1)
                                   ELSE <<>>

C24_Witness ==
    /\ call.op = "get"
    /\ ~call.args.einf
    /\ call.pc = "returned"
    /\ call.reqs[1].status = 404
    /\ call.errlog = <<>>

\* C25: every method called with an empty or non-string endpoint, and
\* _insert/_upsert called with a None entity, raises TypeError or ValueError
\* and sends no request.
C25_ArgErrorsBeforeRequest ==
    (/\ call.op # "none"
     /\ \/ call.args.endpoint \in {"", "notstr"}
        \/ (call.op \in {"insert", "upsert"} /\ call.args.entity = "None"))
    => /\ call.pc = "raised"
       /\ call.err \in {"TypeError", "ValueError"}
       /\ call.reqs = <<>>

C25_Witness ==
    /\ call.op = "filter"
    /\ call.args.endpoint = ""
    /\ call.args.api_filter = "where"
    /\ call.pc = "raised"
    /\ call.err = "ValueError"
    /\ call.reqs = <<>>

\* C26 (as stated): an insert whose POST is answered 413 sends exactly one
\* more POST, chunked; when that one is answered 413 too the failure is
\* logged as an error and the insert reports failure; there is no third POST.
C26_AsStated ==
    (/\ call.op = "legacy_insert"
     /\ call.reqs # <<>>
     /\ call.reqs[1].status = 413)
    => /\ Len(call.reqs) <= 2
       /\ call.pc # "post" =>
             /\ call.pc = "returned"
             /\ Len(call.reqs) = 2
             /\ call.reqs[2].chunked
             /\ call.reqs[2].status = 413 =>
                   /\ call.ret = <<"not_ok">>
                   /\ \E i \in 1..Len(call.errlog) : call.errlog[i][2] = 2

-----------------------------------------------------------------------------
(* Properties of download_log as a whole *)

\* C27 (as stated): with retries = N one call of download_log accesses the
\* network at most N + 1 times in total.
C27_AsStated ==
    dl.attempts["aws"] + dl.attempts["travis"] <= dl.retries + 1

\* C28: download_log raises ValueError for an empty job id or an empty
\* destination and, with both given, FileExistsError when the destination is
\* a file and overwrite is false; in these cases no request is made and the
\* destination is as it was before the call.
C28_ArgumentErrors ==
    dl.pc # "idle" =>
        /\ (dl.job_id = "" \/ dl.destination = "") =>
              /\ dl.pc = "raised"
              /\ dl.err = "ValueError"
              /\ dl.order = <<>>
              /\ dl.file = dl.file0
        /\ (dl.job_id # "" /\ dl.destination # "" /\ dl.file0 # Absent /\ ~dl.overwrite) =>
              /\ dl.pc = "raised"
              /\ dl.err = "FileExistsError"
              /\ dl.order = <<>>
              /\ dl.file = dl.file0

C28_Witness ==
    /\ dl.pc = "raised"
    /\ dl.err = "FileExistsError"
    /\ dl.job_id = "123"
    /\ dl.destination = "path"
    /\ ~dl.overwrite
    /\ dl.file = OldFile

-----------------------------------------------------------------------------
(* Properties of successive calls of one client *)

\* C29: no etag survives a call. Every _patch/_delete call that reaches its
\* write has made exactly one GET of its own before it and sends that GET's
\* etag as If-Match; so when no other client has called anything, a _patch
\* that follows an accepted _patch of the same client is accepted too.
C29_NoEtagCache ==
    \A c \in Clients :
        /\ (PatchOrDelete(c) /\ client[c].pc \in {"write", "returned"}) =>
              /\ client[c].gets = 1
              /\ client[c].etag = client[c].get_etag
              /\ client[c].writes = 1 => client[c].if_match = client[c].get_etag
        /\ (/\ client[c].op = "patch"
            /\ client[c].pc = "returned"
            /\ client[c].prev_op = "patch"
            /\ client[c].prev_resp = 200
            /\ \A d \in Clients \ {c} : client[d].calls = 0)
           => client[c].resp = 200

C29_Witness ==
    /\ client["c1"].calls = 2
    /\ client["c1"].op = "patch"
    /\ client["c1"].prev_op = "patch"
    /\ client["c1"].prev_resp = 200
    /\ client["c1"].pc = "returned"
    /\ client["c1"].resp = 200
    /\ client["c1"].if_match = 2
    /\ client["c2"].calls = 0

-----------------------------------------------------------------------------
(* Properties of the traversal's termination *)

\* The links the chain starting at the first page leads through.
RECURSIVE ReachFrom(_)
ReachFrom(S) ==
    LET T == S \cup ({pages[k].next : k \in S} \ {0})
    IN  IF T = S THEN S ELSE ReachFrom(T)

Reach == IF pages = <<>> THEN {} ELSE ReachFrom({1})

\* Every page of the chain is a 200 page with items and a next link, so the
\* chain closes on itself.
EndlessChain ==
    /\ pages # <<>>
    /\ \A k \in Reach :
          /\ pages[k].status = 200
          /\ pages[k].has_items
          /\ pages[k].count > 0
          /\ pages[k].next # 0

\* The chain ends: it leads to a page without next link.
EndingChain == \E k \in Reach : pages[k].next = 0

\* C30: the traversal has neither loop detection nor a cap on its iterations.
\* On a chain that ends it terminates (returning or raising). On a chain of
\* non-empty pages that all carry a next link it never leaves the loop: it
\* goes on issuing GETs (here up to the bound MaxGets of the model, more than
\* there are pages) and every GET makes the accumulator longer.
C30_NoLoopDetection ==
    /\ []((EndlessChain /\ next_link # 0) =>
            /\ ppc = "loop"
            /\ Len(results) >= Len(visited))
    /\ ((EndlessChain /\ ppc = "loop") ~> (ppc = "loop" /\ Len(visited) = MaxGets))
    /\ ((EndingChain /\ ppc = "loop") ~> (ppc \in {"returned", "raised"}))

C30_Witness ==
    /\ EndlessChain
    /\ Len(pages) = 2
    /\ pages[1].next = 2
    /\ pages[2].next = 1
    /\ ppc = "loop"
    /\ Len(visited) = MaxGets
    /\ Len(results) >= MaxGets

\* C38: download_log returns True exactly when it wrote non-empty downloaded
\* content to the destination. When neither URL gave content to download_log
\* it returns False and the destination is what it was before the call
\* (absent stays absent, an old file keeps its content). The Travis URL is
\* tried also when every access to the AWS URL was reset, i.e. when the
\* primary gave up after its retries.
C38_TrueIffWritten ==
    dl.pc = "returned" =>
        /\ dl.ret \in {"True", "False"}
        /\ (dl.ret = "True") <=>
               /\ dl.file # dl.file0
               /\ Truthy(dl.file)
               /\ \E u \in LogUrls : dl.file = dl.fetched[u]
        /\ (\A u \in LogUrls : ~Truthy(dl.fetched[u])) =>
               /\ dl.ret = "False"
               /\ dl.file = dl.file0
        /\ (dl.resets["aws"] = dl.retries + 1) => dl.attempts["travis"] >= 1

C38_Witness ==
    /\ dl.pc = "returned"
    /\ dl.ret = "False"
    /\ dl.file0 = OldFile
    /\ dl.file = OldFile
    /\ dl.retries = 1
    /\ dl.resets["aws"] = 2
    /\ dl.attempts["travis"] >= 1

\* The server has answered 429 to every request made so far.
Only429 == \A i \in 1..Len(tw.responses) : tw.responses[i].code = 429

\* C31: rate-limit retries are unbounded. _get has ended (returned or raised)
\* exactly when the last answer was not a 429. While every answer is a 429
\* it neither returns nor raises, whatever their number: it has slept once
\* per request and goes on to the next request (here up to the bound
\* MaxPolls of the model; the code has no bound). A polling _get always
\* makes its next request until an answer other than 429 ends it.
C31_UnboundedRateLimitRetries ==
    /\ [](tw.pc \in {"returned", "raised"} <=>
            /\ tw.responses # <<>>
            /\ tw.responses[Len(tw.responses)].code # 429)
    /\ []((tw.pc # "idle" /\ Only429) =>
            /\ tw.pc = "polling"
            /\ tw.ret = "unset"
            /\ tw.err = "none"
            /\ Len(tw.sleeps) = Len(tw.responses))
    /\ (tw.pc = "polling" ~>
            \/ tw.pc \in {"returned", "raised"}
            \/ (tw.pc = "polling" /\ Len(tw.responses) = MaxPolls))

C31_Witness ==
    /\ tw.pc = "polling"
    /\ Only429
    /\ Len(tw.responses) = MaxPolls
    /\ Len(tw.sleeps) = MaxPolls

\* The handlers whose result depends only on the item: one outcome per tag.
ItemHandlers == [Tags -> Finished]

\* This run is a run of handler h: every item ended as h says.
RunOf(h) == \A i \in Positions : fut[i] = h[image_tags[i]]

\* The item-determined handlers that raise no exception outside class
\* Exception for an item of the work list.
NoBaseFor(h) == \A i \in Positions : h[image_tags[i]] # "raised_base"

\* C37 as stated: for a handler whose result depends only on the item, the
\* counts with which a run ends are given by the work list and the handler
\* alone: attempted is the length of the list, succeeded the number of items
\* with a truthy result, errored the number of items with a falsy result or
\* an exception.
C37_AsStated ==
    rpc \in RunEnds \ {"PreRunRaised"} =>
        \A h \in ItemHandlers :
            RunOf(h) =>
                /\ attempted = Len(image_tags)
                /\ succeeded =
                       Cardinality({i \in Positions : h[image_tags[i]] = "truthy"})
                /\ errored =
                       Cardinality({i \in Positions : h[image_tags[i]] # "truthy"})

\* C37: for a handler whose result depends only on the item and is a value
\* or an exception of class Exception, the batch outcome is independent of
\* scheduling: the counting loop is completed and its counts are given by
\* the work list and the handler alone (attempted the length of the list,
\* succeeded the number of items with a truthy result, errored the number of
\* items with a falsy result or an exception); neither the worker count nor
\* the order in which the items ran and completed appears in them. For a
\* handler that raises outside class Exception for an item of the list the
\* loop is never completed: it is left at the first such future visited,
\* with the counts of the futures visited so far, which depend on the order
\* in which as_completed yields them; that item is counted as attempted
\* only, not as errored.
C37_CountsIndependentOfScheduling ==
    \A h \in ItemHandlers :
        RunOf(h) =>
            IF NoBaseFor(h)
            THEN /\ rpc # "Propagated"
                 /\ rpc \in {"PostRun", "Done", "PostRunRaised"} =>
                       /\ attempted = Len(image_tags)
                       /\ succeeded =
                              Cardinality({i \in Positions :
                                              h[image_tags[i]] = "truthy"})
                       /\ errored =
                              Cardinality({i \in Positions :
                                              h[image_tags[i]] \in {"falsy", "raised"}})
            ELSE /\ rpc \notin {"PostRun", "Done", "PostRunRaised"}
                 /\ rpc = "Propagated" =>
                       /\ Cardinality({i \in counted :
                                          h[image_tags[i]] = "raised_base"}) = 1
                       /\ attempted = Cardinality(counted)
                       /\ succeeded =
                              Cardinality({i \in counted :
                                              h[image_tags[i]] = "truthy"})
                       /\ errored =
                              Cardinality({i \in counted :
                                              h[image_tags[i]] \in {"falsy", "raised"}})

C37_Witness ==
    /\ rpc = "Done"
    /\ image_tags = <<"a", "b", "a">>
    /\ max_workers = 2
    /\ peak = 2
    /\ fut = <<"truthy", "raised", "truthy">>
    /\ Len(invoked) = 3
    /\ succeeded = 2
    /\ errored = 1

\* C35: an exception of pre_run leaves run() before the pool exists: nothing
\* was submitted, no handler was invoked, no worker ran, post_run was not
\* called. An exception of post_run leaves run() after every item was
\* submitted, handled and counted.
C35_HookExceptionsPropagate ==
    /\ rpc = "PreRunRaised" =>
           /\ pre_calls = 1
           /\ submitted = 0
           /\ \A i \in Positions : fut[i] = "none"
           /\ invoked = <<>>
           /\ peak = 0
           /\ counted = {}
           /\ post_calls = 0
    /\ rpc = "PostRunRaised" =>
           /\ post_calls = 1
           /\ submitted = Len(image_tags)
           /\ \A i \in Positions : fut[i] \in Finished
           /\ Len(invoked) = Len(image_tags)
           /\ counted = Positions
           /\ attempted = Len(image_tags)
    /\ (invoked # <<>> \/ post_calls > 0) => rpc # "PreRunRaised"

C35_Witness ==
    /\ rpc = "PreRunRaised"
    /\ Len(image_tags) = MaxItems
    /\ max_workers = 2
    /\ pre_calls = 1
    /\ invoked = <<>>

\* C32, as stated: a second run() on a runner whose run() has completed does
\* not dispatch the items to the handler again and does not run the hooks
\* again: over the life of the runner the handler is invoked at most once
\* per element of the list and each hook is called at most once.
C32_AsStated ==
    /\ pre_calls <= 1
    /\ post_calls <= 1
    /\ \A t \in Tags : Occ(invoked, t) <= Occ(image_tags, t)

\* C34: the PUT of an upsert carries If-Match only after a successful GET
\* whose body had a non-empty _etag. After a GET that was not successful,
\* whatever its status (404, 401, 500), the upsert goes on to the PUT and
\* sends it without If-Match; after a successful GET whose _etag is empty it
\* does the same.
C34_UnconditionedPut ==
    call.op = "upsert" /\ call.reqs # <<>> =>
        LET g == call.reqs[1]
            bare == ~Ok(g.status) \/ call.get_etag = EmptyEtag
        IN  /\ g.method = "GET"
            /\ (bare /\ Len(call.reqs) = 1) => (call.pc = "write" /\ call.err = "none")
            /\ Len(call.reqs) >= 2 =>
                   /\ Len(call.reqs) = 2
                   /\ call.reqs[2].method = "PUT"
                   /\ bare => call.reqs[2].if_match = 0
                   /\ ~bare => call.reqs[2].if_match = call.get_etag
                   /\ ~bare => call.reqs[2].if_match > 0

C34_Witness ==
    /\ call.op = "upsert"
    /\ call.pc = "returned"
    /\ Len(call.reqs) = 2
    /\ call.reqs[1].status = 500
    /\ call.reqs[2].method = "PUT"
    /\ call.reqs[2].if_match = 0
    /\ call.reqs[2].status = 200

\* C33: an exception of the transport is not caught. The request that raised
\* is the last one of the call, the call has raised that exception and has
\* returned nothing; when it is the GET inside a patch, delete or upsert, no
\* PATCH, DELETE or PUT was sent.
C33_TransportErrorsPropagate ==
    /\ \A k \in 1..Len(call.reqs) :
           call.reqs[k].status = 0 =>
               /\ k = Len(call.reqs)
               /\ call.pc = "raised"
               /\ call.err = "ConnectionError"
               /\ call.ret = <<>>
    /\ (/\ call.op \in {"patch", "delete", "upsert"}
        /\ call.reqs # <<>>
        /\ call.reqs[1].status = 0) =>
           /\ Len(call.reqs) = 1
           /\ call.reqs[1].method = "GET"

C33_Witness ==
    /\ call.op = "upsert"
    /\ call.pc = "raised"
    /\ call.err = "ConnectionError"
    /\ Len(call.reqs) = 1
    /\ call.reqs[1].method = "GET"
    /\ call.reqs[1].status = 0

\* Every page fetched so far is non-empty and ends with a number other than '1'.
NeverOne ==
    \A k \in 1..Len(gi.fetched) :
        gi.fetched[k] # <<>> /\ Last(gi.fetched[k]) # "1"

\* s is an initial part of t.
IsPrefix(s, t) == Len(s) <= Len(t) /\ s = SubSeq(t, 1, Len(s))

\* C39: _get_iterate yields the items of the fetched pages in fetch order:
\* what it has yielded is an initial part of the concatenation of the pages,
\* all of it whenever the generator is about to fetch, is suspended after the
\* last item of a page, or has ended. The first request carries the caller's
\* arguments, every following one after_number = the number of the last item
\* of the page before. It has returned only when the last page fetched is
\* empty or has been yielded and ends with number '1', and in that case it
\* has returned or is suspended at the yield of that last item and returns
\* when the consumer asks for the next one. While every page is non-empty and
\* ends with another number it does not end: as long as the consumer asks
\* for items it goes on yielding and fetching (here up to the bound MaxFetch
\* of the model; the code has no bound).
C39_GetIterate ==
    /\ [](/\ IsPrefix(gi.yielded, Flatten(gi.fetched))
          /\ gi.pc \in {"fetch", "resume", "returned", "raised"} =>
                 gi.yielded = Flatten(gi.fetched)
          /\ gi.pc = "yield" =>
                 Len(gi.yielded) >=
                     Len(Flatten(SubSeq(gi.fetched, 1, Len(gi.fetched) - 1))))
    /\ [](\A k \in 1..Len(gi.params) :
             gi.params[k] = IF k = 1 THEN "kwargs" ELSE Last(gi.fetched[k - 1]))
    /\ [](gi.pc = "returned" =>
             /\ gi.fetched # <<>>
             /\ \/ Last(gi.fetched) = <<>>
                \/ /\ Last(Last(gi.fetched)) = "1"
                   /\ gi.yielded = Flatten(gi.fetched))
    /\ []((/\ gi.fetched # <<>>
           /\ \/ Last(gi.fetched) = <<>>
              \/ /\ Last(Last(gi.fetched)) = "1"
                 /\ gi.yielded = Flatten(gi.fetched))
          => gi.pc \in {"resume", "returned"})
    /\ []((gi.pc = "resume" /\ Last(gi.result) = "1") => gi.result = Last(gi.fetched))
    /\ ((gi.pc = "resume" /\ Last(gi.result) = "1") ~> gi.pc = "returned")
    /\ []((NeverOne /\ gi.pc \notin {"idle", "raised"}) =>
             gi.pc \in {"fetch", "yield", "resume"})
    /\ (gi.pc \in {"fetch", "yield", "resume"} ~>
            \/ gi.pc \in {"returned", "raised"}
            \/ (gi.pc = "fetch" /\ Len(gi.params) = MaxFetch))

C39_Witness ==
    /\ gi.pc = "fetch"
    /\ gi.err = "none"
    /\ NeverOne
    /\ Len(gi.fetched) = MaxFetch
    /\ Len(gi.fetched[1]) = 2
    /\ gi.fetched[1][1] = "1"
    /\ gi.yielded = Flatten(gi.fetched)
    /\ gi.after_number = "2"

\* The requests of the call that are DELETEs / POSTs, by position.
RepDeletes == {k \in 1..Len(rep.reqs) : rep.reqs[k].method = "DELETE"}
RepPosts == {k \in 1..Len(rep.reqs) : rep.reqs[k].method = "POST"}

\* The pairs whose DELETE succeeded, and the DELETEs that failed.
RepDeleted == {rep.reqs[k].id : k \in {j \in RepDeletes : Ok(rep.reqs[j].status)}}
RepFailed == {k \in RepDeletes : ~Ok(rep.reqs[k].status)}

\* C36: replace_mined_build_pairs_for_repo is ordered and non-atomic. A POST
\* is sent only after every listed pair was deleted with success. The first
\* DELETE that fails is the last request of the call: the call returns
\* False, the pairs deleted before it are gone from the store, the failed
\* one and those after it are still there, and nothing was inserted. A call
\* that raised has inserted nothing either. The pairs deleted are those the
\* listing returned: all the repo's pairs in DatabaseAPI, where a listing
\* that fails raises.
C36_OrderedNonAtomic ==
    /\ rep.store = (1..rep.existing) \ RepDeleted
    /\ RepPosts # {} =>
           /\ RepFailed = {}
           /\ RepDeleted = {rep.listed[j] : j \in 1..Len(rep.listed)}
           /\ \A k \in RepPosts, d \in RepDeletes : d < k
           /\ rep.variant = "database_api" => rep.store = {}
    /\ RepFailed # {} =>
           /\ RepFailed = {Len(rep.reqs)}
           /\ rep.pc = "returned"
           /\ rep.ret = "False"
           /\ RepPosts = {}
           /\ rep.inserted = 0
           /\ RepDeleted = {rep.listed[j] : j \in 1..(rep.pos - 1)}
           /\ {rep.listed[j] : j \in rep.pos..Len(rep.listed)} \subseteq rep.store
    /\ rep.pc = "raised" => (RepPosts = {} /\ rep.inserted = 0)
    /\ rep.ret = "True" => (RepFailed = {} /\ rep.inserted = rep.new)

C36_Witness ==
    /\ rep.pc = "returned"
    /\ rep.ret = "False"
    /\ rep.existing = 3
    /\ rep.new = 2
    /\ rep.store = {2, 3}
    /\ rep.pos = 2
    /\ RepDeleted = {1}
    /\ RepPosts = {}











=============================================================================
